---- MODULE Spec2Model ----
(***************************************************************************)
(* WikiVoice backend: the RAG pipeline (RAGService.process_query,          *)
(* get_conversation_history), the session service and the per-request      *)
(* database transaction (get_db), as a state machine.                      *)
(*                                                                         *)
(* Text values are sequences of one-character strings, so that len(), the  *)
(* slices [:50] / [:200] and str.replace act on them as in the code; fixed *)
(* labels of a prompt are single chunks.                                   *)
(***************************************************************************)
EXTENDS Integers, Sequences, FiniteSets, TLC

(***************************************************************************)
(* Bounds of the model.                                                    *)
(***************************************************************************)
MaxRequests == 2
MaxHits == 4
MaxTurns == 6
MaxPad == 2
MaxDelay == 3
MaxLaterOps == 2
MaxQueryLen == 110
MaxArticles == 4

Reqs == {"r1", "r2"}
Users == {1, 2}
SessionIds == {1, 2}
NoReq == "none"

(***************************************************************************)
(* Program constants.                                                      *)
(***************************************************************************)
TITLE_MAX_LENGTH == 50
MIN_ARTICLE_WORDS == 500
HISTORY_LIMIT == 5
SEARCH_KEEP == 3
DEFAULT_MAX_ARTICLES == 3
EXCERPT_LENGTH == 200

APOLOGY == <<"I'm sorry, I encountered an error while processing your question. Please try again.">>
PyNone == <<"<None>">>
AI_TEXT == <<"AI Response">>
DEFAULT_TITLE == <<"N", "e", "w">>
USER_TITLE == <<"M", "y">>
WIKI_BASE == <<"https://en.wikipedia.org/wiki/">>
EMPTY_CONTEXT == <<"(EMPTY - No Wikipedia articles were found. You must decline to answer and ask the user to rephrase.)">>
START_OF_CONVERSATION == <<"(This is the start of the conversation)">>
SYSTEM_PROMPT == <<"You are WikiVoice ... USER QUERY: The current question to answer">>
ACK_MESSAGE == <<"I understand. I'll use the Wikipedia context and conversation history to answer questions.">>
NOT_FOUND_DETAIL == "Session not found or access denied"
SESSION_NOT_FOUND_DETAIL == "Session not found"

(***************************************************************************)
(* Inputs.                                                                 *)
(***************************************************************************)
ShortQuery == <<"W", "h", "o", "?">>
OtherQuery == <<"W", "h", "y", "?">>
LongQuery == [i \in 1..(TITLE_MAX_LENGTH + 1) |-> IF i = TITLE_MAX_LENGTH + 1 THEN "z" ELSE "q"]
\* The content of the chat completion that answers a topic extraction.
RawTopic == <<" ", "R", "\n">>
QueryInputs == { [query_text |-> ShortQuery, input_mode |-> "voice"],
                 [query_text |-> OtherQuery, input_mode |-> "voice"],
                 [query_text |-> LongQuery, input_mode |-> "text"] }
\* Each of the two client connections sends its own utterance.
InputsOf(r) == { i \in QueryInputs :
                   i.query_text = IF r = "r1" THEN ShortQuery ELSE OtherQuery }

\* What the generative service can answer to one call.
OpenAIReplies == {"timeout", "http_status_error", "malformed", "null_content", "text"}

\* What the search service and the extract service answer: the hits of the
\* search in the service's order, each with the extract the extract service
\* gives for its title (NoExtract: the fetch fails or the page has no
\* "extract" key; <<>>: an empty extract).
Hit(t, wc, ex) == [title |-> t, wordcount |-> wc, extract |-> ex]
RolexTitle == <<"R", "x">>
TowerTitle == <<"E", " ", "T">>
StubTitle == <<"S">>
RolexExtract == <<"R", "o", "l", "e", "x", ".">>
TowerExtract == <<"I", "r", "o", "n">>
NoExtract == <<"<no extract>">>
WikiWorlds ==
    { [search_ok |-> FALSE, hits |-> <<Hit(RolexTitle, 5000, RolexExtract)>>],
      [search_ok |-> TRUE, hits |-> <<>>],
      [search_ok |-> TRUE, hits |-> <<Hit(RolexTitle, 5000, RolexExtract)>>],
      [search_ok |-> TRUE,
       hits |-> <<Hit(StubTitle, 120, RolexExtract), Hit(RolexTitle, 5000, NoExtract),
                  Hit(TowerTitle, 500, TowerExtract),
                  Hit(RolexTitle, 5000, RolexExtract)>>] }

(***************************************************************************)
(* State.                                                                  *)
(***************************************************************************)
VARIABLES
    sessions,       \* committed rows of auth_service.sessions, by session_id
    queries,        \* committed rows of auth_service.queries
    next_query_id,  \* the autoincrement sequence of queries.query_id
    clock,          \* the database's now(): advances at every transaction begin
    lock,           \* session_id -> the transaction holding the row's update lock
    inflight,       \* request -> the external call it awaits, with the answer to come
    pc,             \* request -> position of its handler
    req,            \* request -> the HTTP request's parameters
    tx,             \* request -> uncommitted writes of its AsyncSession
    loc,            \* request -> local variables of the handler
    calls,          \* request -> number of calls made to each collaborator
    result,         \* request -> value returned (or raised) by the service method
    http,           \* request -> response of the route
    started,        \* number of requests received so far
    auto_titles,    \* session_id -> committed title updates made by process_query
    pair,           \* two stores that differ in one session, and one user's calls on both
    unit            \* one call of a function on its own: its arguments and what it returned

vars == <<sessions, queries, next_query_id, clock, lock, inflight, pc, req, tx, loc,
          calls, result, http, started, auto_titles, pair, unit>>

(***************************************************************************)
(* Helpers on sequences.                                                   *)
(***************************************************************************)
Min(a, b) == IF a < b THEN a ELSE b
Take(s, n) == SubSeq(s, 1, Min(n, Len(s)))
Reverse(s) == [i \in 1..Len(s) |-> s[Len(s) + 1 - i]]
Truthy(s) == s # PyNone /\ s # NoExtract /\ Len(s) > 0

Whitespace == {" ", "\n", "\t"}
RECURSIVE LStrip(_)
LStrip(s) == IF Len(s) > 0 /\ Head(s) \in Whitespace THEN LStrip(Tail(s)) ELSE s
\* str.strip()
Strip(s) == Reverse(LStrip(Reverse(LStrip(s))))

RECURSIVE Join(_, _)
Join(sep, ss) ==
    IF Len(ss) = 0 THEN <<>>
    ELSE IF Len(ss) = 1 THEN ss[1]
    ELSE ss[1] \o sep \o Join(sep, Tail(ss))

(***************************************************************************)
(* Rows.                                                                   *)
(***************************************************************************)
NoSession == [present |-> FALSE, user_id |-> 0, title |-> <<>>, is_obsolete |-> FALSE]
SessionRow(u, t) == [present |-> TRUE, user_id |-> u, title |-> t, is_obsolete |-> FALSE]
NoQuery == [query_id |-> 0, session_id |-> 0, query_text |-> <<>>, response_text |-> <<>>,
            input_mode |-> "", created_at |-> 0]

(***************************************************************************)
(* SessionRepository / QueryRepository reads.                              *)
(***************************************************************************)
\* The lookup without its is_obsolete filter.
get_session_by_id_any(sess, session_id) ==
    IF session_id \in DOMAIN sess /\ sess[session_id].present
    THEN sess[session_id]
    ELSE NoSession

\* select(SessionModel).where(session_id == id, is_obsolete is False).first()
get_session_by_id(sess, session_id) ==
    IF session_id \in DOMAIN sess /\ sess[session_id].present
       /\ ~sess[session_id].is_obsolete
    THEN sess[session_id]
    ELSE NoSession

\* The rows in the order of their ids instead of their creation times.
RECURSIVE OrderByCreatedAsc_ById(_)
OrderByCreatedAsc_ById(S) ==
    IF S = {} THEN <<>>
    ELSE LET m == CHOOSE q \in S : \A p \in S : q.query_id <= p.query_id
         IN <<m>> \o OrderByCreatedAsc_ById(S \ {m})

RECURSIVE OrderByCreatedAsc(_)
OrderByCreatedAsc(S) ==
    IF S = {} THEN <<>>
    ELSE LET m == CHOOSE q \in S : \A p \in S :
                     \/ q.created_at < p.created_at
                     \/ q.created_at = p.created_at /\ q.query_id <= p.query_id
         IN <<m>> \o OrderByCreatedAsc(S \ {m})

\* select(QueryModel).where(session_id == id).order_by(created_at.asc())
get_queries_by_session_id(qs, session_id) ==
    OrderByCreatedAsc({q \in qs : q.session_id = session_id})

\* The newest turns left in the order of the fetch, newest first.
get_recent_queries_by_session_id_unreversed(qs, session_id, limit) ==
    Take(Reverse(get_queries_by_session_id(qs, session_id)), limit)

\* ... .order_by(created_at.desc()).limit(limit), then reversed()
get_recent_queries_by_session_id(qs, session_id, limit) ==
    Reverse(Take(Reverse(get_queries_by_session_id(qs, session_id)), limit))

(***************************************************************************)
(* The ownership check shared by process_query and                         *)
(* get_conversation_history: "if not session or session.user_id != user_id *)
(* : return None".                                                         *)
(***************************************************************************)
\* The check without its comparison of the owner.
SessionAccessible_AnyOwner(session, user_id) ==
    session.present

SessionAccessible(session, user_id) ==
    session.present /\ session.user_id = user_id

(***************************************************************************)
(* WikipediaClient.                                                        *)
(***************************************************************************)
WordCount(hit) == IF hit.wordcount < 0 THEN 0 ELSE hit.wordcount
\* The filter with a strict comparison.
Substantial_Strict(hit) == WordCount(hit) > MIN_ARTICLE_WORDS

Substantial(hit) == WordCount(hit) >= MIN_ARTICLE_WORDS

search_articles(w) ==
    IF ~w.search_ok THEN <<>>
    ELSE Take(SelectSeq(w.hits, Substantial), SEARCH_KEEP)

get_article_extract(hit) == hit.extract

ReplaceSpaces(t) == [i \in 1..Len(t) |-> IF t[i] = " " THEN "_" ELSE t[i]]
ArticleUrl(t) == WIKI_BASE \o ReplaceSpaces(t)
ContextPart(hit) == <<"#", "#", " ">> \o hit.title \o <<"\n">> \o get_article_extract(hit)
WikipediaSource(hit) ==
    [title |-> hit.title, extract |-> Take(get_article_extract(hit), EXCERPT_LENGTH),
     url |-> ArticleUrl(hit.title)]
\* A failed or empty extract taken for a text.
HasExtract_Always(hit) == TRUE

HasExtract(hit) == Truthy(get_article_extract(hit))

RECURSIVE MapParts(_)
MapParts(hs) == IF Len(hs) = 0 THEN <<>> ELSE <<ContextPart(Head(hs))>> \o MapParts(Tail(hs))
RECURSIVE MapSources(_)
MapSources(hs) ==
    IF Len(hs) = 0 THEN <<>> ELSE <<WikipediaSource(Head(hs))>> \o MapSources(Tail(hs))

\* The loop over all search results, max_articles ignored.
get_context_for_query_unlimited(w, max_articles) ==
    LET search_results == search_articles(w)
        used == SelectSeq(search_results, HasExtract)
    IN IF Len(search_results) = 0
       THEN [context |-> <<>>, sources |-> <<>>]
       ELSE [context |-> Join(<<"\n", "\n">>, MapParts(used)), sources |-> MapSources(used)]

get_context_for_query(w, max_articles) ==
    LET search_results == search_articles(w)
        used == SelectSeq(Take(search_results, max_articles), HasExtract)
    IN IF Len(search_results) = 0
       THEN [context |-> <<>>, sources |-> <<>>]
       ELSE [context |-> Join(<<"\n", "\n">>, MapParts(used)), sources |-> MapSources(used)]

(***************************************************************************)
(* RAGService: the pure parts.                                             *)
(***************************************************************************)
\* The extraction giving up its fallback: an empty topic on failure.
_extract_search_terms_empty(reply, query_text) ==
    IF reply = "text" THEN Strip(RawTopic) ELSE <<>>

\* _extract_search_terms: any exception (timeout, raise_for_status, json(),
\* a missing key, .strip() of a null content) falls back to the query.
_extract_search_terms(reply, query_text) ==
    IF reply = "text" THEN Strip(RawTopic) ELSE query_text

\* _get_openai_response: exceptions give the apology; a payload whose
\* content is null raises nothing and is returned as it is.
_get_openai_response(reply) ==
    CASE reply = "text" -> AI_TEXT
      [] reply = "null_content" -> PyNone
      [] reply = "http_status_error" -> APOLOGY
      [] OTHER -> APOLOGY

RECURSIVE RenderHistory(_)
RenderHistory(h) ==
    IF Len(h) = 0 THEN <<>>
    ELSE <<"User: ">> \o Head(h).query_text \o <<"\nAssistant: ">>
         \o Head(h).response_text \o <<"\n\n">> \o RenderHistory(Tail(h))

\* The prompt with the past turns newest first.
_build_messages_newest_first(wikipedia_context, conversation_history, current_query) ==
    << [role |-> "system", content |-> SYSTEM_PROMPT],
       [role |-> "user",
        content |-> <<"WIKIPEDIA CONTEXT:\n">>
                    \o (IF Len(wikipedia_context) > 0 THEN wikipedia_context
                        ELSE EMPTY_CONTEXT)
                    \o <<"\n\nCONVERSATION HISTORY:\n">>
                    \o (IF Len(conversation_history) > 0
                        THEN RenderHistory(Reverse(conversation_history))
                        ELSE START_OF_CONVERSATION)],
       [role |-> "assistant", content |-> ACK_MESSAGE],
       [role |-> "user", content |-> <<"USER QUERY:\n">> \o current_query] >>

\* The prompt without the sentinel for an empty context.
_build_messages_no_sentinel(wikipedia_context, conversation_history, current_query) ==
    << [role |-> "system", content |-> SYSTEM_PROMPT],
       [role |-> "user",
        content |-> <<"WIKIPEDIA CONTEXT:\n">> \o wikipedia_context
                    \o <<"\n\nCONVERSATION HISTORY:\n">>
                    \o (IF Len(conversation_history) > 0
                        THEN RenderHistory(conversation_history)
                        ELSE START_OF_CONVERSATION)],
       [role |-> "assistant", content |-> ACK_MESSAGE],
       [role |-> "user", content |-> <<"USER QUERY:\n">> \o current_query] >>

_build_messages(wikipedia_context, conversation_history, current_query) ==
    << [role |-> "system", content |-> SYSTEM_PROMPT],
       [role |-> "user",
        content |-> <<"WIKIPEDIA CONTEXT:\n">>
                    \o (IF Len(wikipedia_context) > 0 THEN wikipedia_context
                        ELSE EMPTY_CONTEXT)
                    \o <<"\n\nCONVERSATION HISTORY:\n">>
                    \o (IF Len(conversation_history) > 0
                        THEN RenderHistory(conversation_history)
                        ELSE START_OF_CONVERSATION)],
       [role |-> "assistant", content |-> ACK_MESSAGE],
       [role |-> "user", content |-> <<"USER QUERY:\n">> \o current_query] >>

\* The truncation with the comparison off by one.
SessionTitle_OffByOne(query_text) ==
    IF Len(query_text) >= TITLE_MAX_LENGTH
    THEN SubSeq(query_text, 1, TITLE_MAX_LENGTH) \o <<".", ".", ".">>
    ELSE query_text

SessionTitle(query_text) ==
    IF Len(query_text) > TITLE_MAX_LENGTH
    THEN SubSeq(query_text, 1, TITLE_MAX_LENGTH) \o <<".", ".", ".">>
    ELSE query_text

\* The sources handed on as they are, extract included.
ProjectSources_Full(ss) == ss

RECURSIVE ProjectSources(_)
ProjectSources(ss) ==
    IF Len(ss) = 0 THEN <<>>
    ELSE <<[title |-> Head(ss).title, url |-> Head(ss).url]>> \o ProjectSources(Tail(ss))

\* The response built without its sources.
ResponseSources_Never(wikipedia_context, wikipedia_sources) == <<>>

ResponseSources(wikipedia_context, wikipedia_sources) ==
    IF Len(wikipedia_context) > 0 /\ Len(wikipedia_sources) > 0
    THEN ProjectSources(wikipedia_sources)
    ELSE <<>>

\* The response showing the extracted topic as the user's query.
QueryResponse_Topic(q, sources) ==
    [query_id |-> q.query_id, query_text |-> Strip(RawTopic),
     response_text |-> q.response_text, input_mode |-> q.input_mode,
     sources |-> sources, created_at |-> q.created_at]

QueryResponse(q, sources) ==
    [query_id |-> q.query_id, query_text |-> q.query_text,
     response_text |-> q.response_text, input_mode |-> q.input_mode,
     sources |-> sources, created_at |-> q.created_at]

RECURSIVE HistoryResponses(_)
HistoryResponses(qs) ==
    IF Len(qs) = 0 THEN <<>>
    ELSE <<QueryResponse(Head(qs), <<>>)>> \o HistoryResponses(Tail(qs))

\* nullable=False columns of QueryModel: the flush of a row with a null
\* response_text raises IntegrityError.
InsertAccepted(response_text) == response_text # PyNone

\* How create_query's flush ends: the row is rejected, the database is
\* unreachable, or the INSERT is done.
CreateOutcome(response_text, db_ok) ==
    IF ~InsertAccepted(response_text) THEN "IntegrityError"
    ELSE IF ~db_ok THEN "OperationalError"
    ELSE "ok"

\* The INSERT sent twice.
create_query_twice(inserted, row) ==
    inserted \cup {row, [row EXCEPT !.query_id = @ + 1]}

\* self.db.add(query); await self.db.flush()
create_query(inserted, row) == inserted \cup {row}

\* The title update without its condition.
IsFirstTurn_Always(recent_queries) == TRUE

\* "if len(recent_queries) == 0"
IsFirstTurn(recent_queries) == Len(recent_queries) = 0

\* What process_query returns after its last await (lines 154-165).
ShapedResult(query_record, wikipedia_context, wikipedia_sources) ==
    [kind |-> "QueryResponse",
     value |-> QueryResponse(query_record,
                             ResponseSources(wikipedia_context, wikipedia_sources))]

\* get_db committing whatever came out of the route.
DbExit_AlwaysCommit(raised) == "commit"

\* get_db after the yield: commit when the route returned, rollback when an
\* exception came out of it.
DbExit(raised) == IF raised THEN "rollback" ELSE "commit"


(***************************************************************************)
(* Initial state: an empty queries table, session 1 owned by user 1,       *)
(* session 2 not existing, no request in flight.                           *)
(***************************************************************************)
NoTx == [started_at |-> 0, inserted |-> {}, set_title |-> FALSE, title |-> <<>>,
         title_origin |-> "", set_obsolete |-> FALSE]
NoLocals == [wikipedia_context |-> <<>>, wikipedia_sources |-> <<>>,
             recent_queries |-> <<>>, response_text |-> <<>>, query_record |-> NoQuery]
NoCalls == [extract |-> 0, retrieve |-> 0, generate |-> 0, create |-> 0, title |-> 0]
NoRequest == [op |-> "", user_id |-> 0, session_id |-> 0, query_text |-> <<>>,
              input_mode |-> "", title |-> <<>>]
NoResult == [kind |-> "unset", value |-> <<>>]
NoHttp == [status |-> 0, detail |-> ""]
NoWiki == [search_ok |-> FALSE, hits |-> <<>>]
NoStore == [sessions |-> <<>>, queries |-> {}, next_query_id |-> 0, clock |-> 0]
NoOutcome == [result |-> NoResult, http |-> NoHttp]
PairWorlds == {"owned_by_other", "absent"}
NoPair == [store |-> [w \in PairWorlds |-> NoStore], req |-> NoRequest,
           out |-> [w \in PairWorlds |-> NoOutcome], count |-> 0]
NoUnit == [fn |-> "", input |-> <<>>, output |-> <<>>]
NoCall == [service |-> "", query |-> <<>>, messages |-> <<>>, openai |-> "", wiki |-> NoWiki]

Init ==
    /\ sessions = [s \in SessionIds |-> IF s = 1 THEN SessionRow(1, DEFAULT_TITLE) ELSE NoSession]
    /\ queries = {}
    /\ next_query_id = 1
    /\ clock = 0
    /\ lock = [s \in SessionIds |-> NoReq]
    /\ inflight = [r \in Reqs |-> NoCall]
    /\ pc = [r \in Reqs |-> "idle"]
    /\ req = [r \in Reqs |-> NoRequest]
    /\ tx = [r \in Reqs |-> NoTx]
    /\ loc = [r \in Reqs |-> NoLocals]
    /\ calls = [r \in Reqs |-> NoCalls]
    /\ result = [r \in Reqs |-> NoResult]
    /\ http = [r \in Reqs |-> NoHttp]
    /\ started = 0
    /\ auto_titles = [s \in SessionIds |-> 0]
    /\ pair = NoPair
    /\ unit = NoUnit

(***************************************************************************)
(* A request arrives: the route's parameters.                              *)
(***************************************************************************)
RequestsWith(inputs) ==
    { [op |-> "process_query", user_id |-> u, session_id |-> s,
       query_text |-> i.query_text, input_mode |-> i.input_mode, title |-> <<>>]
      : u \in Users, s \in SessionIds, i \in inputs }
    \cup
    { [op |-> o, user_id |-> u, session_id |-> s, query_text |-> <<>>, input_mode |-> "",
       title |-> IF o = "update_session_title" THEN USER_TITLE ELSE <<>>]
      : o \in {"get_conversation_history", "update_session_title", "delete_session"},
        u \in Users, s \in SessionIds }

Requests(r) == RequestsWith(InputsOf(r))

Receive(r) ==
    /\ UNCHANGED <<pair, unit>>
    /\ pc[r] \in {"idle", "done"}
    /\ started < MaxRequests
    /\ \E q \in Requests(r) : req' = [req EXCEPT ![r] = q]
    /\ started' = started + 1
    /\ pc' = [pc EXCEPT ![r] = "check"]
    /\ http' = [http EXCEPT ![r] = NoHttp]
    /\ UNCHANGED <<sessions, queries, next_query_id, clock, lock, inflight, tx, loc, calls,
                   result, auto_titles>>

(***************************************************************************)
(* The routes' handling of the service's return value.                     *)
(***************************************************************************)
\* submit_query / get_conversation_history: "if not result: raise
\* HTTPException(404, 'Session not found or access denied')".
submit_query_response(res) ==
    IF res.kind = "None" THEN [status |-> 404, detail |-> NOT_FOUND_DETAIL]
    ELSE [status |-> 201, detail |-> "Query processed successfully"]

get_conversation_history_response(res) ==
    IF res.kind = "None" THEN [status |-> 404, detail |-> NOT_FOUND_DETAIL]
    ELSE [status |-> 200, detail |-> "History retrieved successfully"]

\* get_db turns an exception of the database layer into a DomainError.
GetDbError(exc) ==
    IF exc = "IntegrityError"
    THEN [status |-> 500, detail |-> "Database integrity constraint violated"]
    ELSE [status |-> 503, detail |-> "Unable to connect to the database"]
\* RequestTimeoutMiddleware's answer.
TimeoutResponse == [status |-> 504, detail |-> "Request timeout"]

NoneResult == [kind |-> "None", value |-> <<>>]
RaisedResult(exc) == [kind |-> "raised", value |-> <<exc>>]

(***************************************************************************)
(* RAGService.process_query, one action per await.                         *)
(***************************************************************************)
\* The POST to the chat-completions endpoint, and the answer it will get.
OpenAICall(user_text, messages, reply) ==
    [service |-> "openai", query |-> user_text, messages |-> messages, openai |-> reply,
     wiki |-> NoWiki]
\* The search for a topic, and what the search and extract services will answer.
WikipediaCall(topic, w) ==
    [service |-> "wikipedia", query |-> topic, messages |-> <<>>, openai |-> "", wiki |-> w]

\* session = await get_session_by_id(session_id), the first statement of the
\* request's transaction; then _extract_search_terms posts its request.
PQ_Check(r) ==
    /\ UNCHANGED <<pair, unit>>
    /\ pc[r] = "check" /\ req[r].op = "process_query"
    /\ LET session == get_session_by_id(sessions, req[r].session_id)
       IN /\ clock' = clock + 1
          /\ tx' = [tx EXCEPT ![r].started_at = clock + 1]
          /\ IF SessionAccessible(session, req[r].user_id)
             THEN /\ pc' = [pc EXCEPT ![r] = "extract"]
                  /\ \E reply \in OpenAIReplies :
                       inflight' = [inflight EXCEPT ![r] =
                                      OpenAICall(req[r].query_text, <<>>, reply)]
                  /\ UNCHANGED <<result, http>>
             ELSE /\ pc' = [pc EXCEPT ![r] = "finish"]
                  /\ result' = [result EXCEPT ![r] = NoneResult]
                  /\ http' = [http EXCEPT ![r] = submit_query_response(NoneResult)]
                  /\ UNCHANGED inflight
    /\ UNCHANGED <<sessions, queries, next_query_id, lock, req, loc, calls, started,
                   auto_titles>>

\* search_terms = await self._extract_search_terms(query_text) completes;
\* get_context_for_query(search_terms) sends its search.
PQ_Extract(r) ==
    /\ UNCHANGED <<pair, unit>>
    /\ pc[r] = "extract"
    /\ LET search_terms == _extract_search_terms(inflight[r].openai, req[r].query_text)
       IN \E w \in WikiWorlds :
            inflight' = [inflight EXCEPT ![r] = WikipediaCall(search_terms, w)]
    /\ calls' = [calls EXCEPT ![r].extract = @ + 1]
    /\ pc' = [pc EXCEPT ![r] = "retrieve"]
    /\ UNCHANGED <<sessions, queries, next_query_id, clock, lock, req, tx, loc, result,
                   http, started, auto_titles>>

\* wikipedia_context, wikipedia_sources = await get_context_for_query(...)
PQ_Retrieve(r) ==
    /\ UNCHANGED <<pair, unit>>
    /\ pc[r] = "retrieve"
    /\ LET c == get_context_for_query(inflight[r].wiki, DEFAULT_MAX_ARTICLES)
       IN loc' = [loc EXCEPT ![r].wikipedia_context = c.context,
                             ![r].wikipedia_sources = c.sources]
    /\ inflight' = [inflight EXCEPT ![r] = NoCall]
    /\ calls' = [calls EXCEPT ![r].retrieve = @ + 1]
    /\ pc' = [pc EXCEPT ![r] = "history"]
    /\ UNCHANGED <<sessions, queries, next_query_id, clock, lock, req, tx, result,
                   http, started, auto_titles>>

\* recent_queries = await get_recent_queries_by_session_id(session_id, limit=5);
\* messages = self._build_messages(...); _get_openai_response posts them.
PQ_History(r) ==
    /\ UNCHANGED <<pair, unit>>
    /\ pc[r] = "history"
    /\ LET recent == get_recent_queries_by_session_id(queries \cup tx[r].inserted,
                                                      req[r].session_id, HISTORY_LIMIT)
           messages == _build_messages(loc[r].wikipedia_context, recent, req[r].query_text)
       IN /\ loc' = [loc EXCEPT ![r].recent_queries = recent]
          /\ \E reply \in OpenAIReplies :
               inflight' = [inflight EXCEPT ![r] =
                              OpenAICall(req[r].query_text, messages, reply)]
    /\ pc' = [pc EXCEPT ![r] = "generate"]
    /\ UNCHANGED <<sessions, queries, next_query_id, clock, lock, req, tx, calls,
                   result, http, started, auto_titles>>

\* response_text = await self._get_openai_response(messages)
PQ_Generate(r) ==
    /\ UNCHANGED <<pair, unit>>
    /\ pc[r] = "generate"
    /\ loc' = [loc EXCEPT ![r].response_text = _get_openai_response(inflight[r].openai)]
    /\ inflight' = [inflight EXCEPT ![r] = NoCall]
    /\ calls' = [calls EXCEPT ![r].generate = @ + 1]
    /\ pc' = [pc EXCEPT ![r] = "create"]
    /\ UNCHANGED <<sessions, queries, next_query_id, clock, lock, req, tx, result,
                   http, started, auto_titles>>

Shaped(r, query_record) ==
    ShapedResult(query_record, loc[r].wikipedia_context, loc[r].wikipedia_sources)

\* query_record = await create_query(...): the INSERT is flushed inside the
\* transaction; a failing flush raises out of process_query.  When the
\* history was not empty nothing is awaited after it.
PQ_Create(r) ==
    /\ UNCHANGED <<pair, unit>>
    /\ pc[r] = "create"
    /\ calls' = [calls EXCEPT ![r].create = @ + 1]
    /\ \E db_ok \in BOOLEAN :
         LET outcome == CreateOutcome(loc[r].response_text, db_ok)
             row == [query_id |-> next_query_id,
                     session_id |-> req[r].session_id,
                     query_text |-> req[r].query_text,
                     response_text |-> loc[r].response_text,
                     input_mode |-> req[r].input_mode,
                     created_at |-> tx[r].started_at]
         IN IF outcome = "ok"
            THEN /\ tx' = [tx EXCEPT ![r].inserted = create_query(@, row)]
                 /\ next_query_id' = next_query_id + 1
                 /\ loc' = [loc EXCEPT ![r].query_record = row]
                 /\ IF IsFirstTurn(loc[r].recent_queries)
                    THEN /\ pc' = [pc EXCEPT ![r] = "title"]
                         /\ UNCHANGED <<result, http>>
                    ELSE /\ pc' = [pc EXCEPT ![r] = "finish"]
                         /\ result' = [result EXCEPT ![r] = Shaped(r, row)]
                         /\ http' = [http EXCEPT ![r] =
                                       submit_query_response(Shaped(r, row))]
            ELSE /\ pc' = [pc EXCEPT ![r] = "finish"]
                 /\ result' = [result EXCEPT ![r] = RaisedResult(outcome)]
                 /\ http' = [http EXCEPT ![r] = GetDbError(outcome)]
                 /\ UNCHANGED <<tx, next_query_id, loc>>
    /\ UNCHANGED <<sessions, queries, clock, lock, inflight, req, started, auto_titles>>

\* SessionRepository.update_session_title's UPDATE, flushed inside the
\* transaction: it takes the row's lock.
WriteTitle(r, title, origin) ==
    /\ tx' = [tx EXCEPT ![r].set_title = TRUE, ![r].title = title,
                        ![r].title_origin = origin]
    /\ lock' = [lock EXCEPT ![req[r].session_id] = r]

\* if len(recent_queries) == 0: await update_session_title(session_id, title),
\* then the return.
PQ_Title(r) ==
    /\ UNCHANGED <<pair, unit>>
    /\ pc[r] = "title"
    /\ calls' = [calls EXCEPT ![r].title = @ + 1]
    /\ LET session == get_session_by_id(sessions, req[r].session_id)
       IN IF ~session.present
          THEN /\ pc' = [pc EXCEPT ![r] = "finish"]
               /\ result' = [result EXCEPT ![r] = Shaped(r, loc[r].query_record)]
               /\ http' = [http EXCEPT ![r] =
                             submit_query_response(Shaped(r, loc[r].query_record))]
               /\ UNCHANGED <<tx, lock>>
          ELSE IF lock[req[r].session_id] \in {NoReq, r}
          THEN \E db_ok \in BOOLEAN :
                 IF db_ok
                 THEN /\ WriteTitle(r, SessionTitle(req[r].query_text), "auto")
                      /\ pc' = [pc EXCEPT ![r] = "finish"]
                      /\ result' = [result EXCEPT ![r] =
                                      Shaped(r, loc[r].query_record)]
                      /\ http' = [http EXCEPT ![r] =
                                    submit_query_response(
                                        Shaped(r, loc[r].query_record))]
                 ELSE /\ pc' = [pc EXCEPT ![r] = "finish"]
                      /\ result' = [result EXCEPT ![r] = RaisedResult("OperationalError")]
                      /\ http' = [http EXCEPT ![r] = GetDbError("OperationalError")]
                      /\ UNCHANGED <<tx, lock>>
          ELSE /\ pc' = [pc EXCEPT ![r] = "title_wait"]
               /\ UNCHANGED <<tx, lock, result, http>>
    /\ UNCHANGED <<sessions, queries, next_query_id, clock, inflight, req, loc, started,
                   auto_titles>>

\* The UPDATE waited for the row lock of another transaction; it is applied
\* by primary key once the lock is free.
PQ_TitleAfterWait(r) ==
    /\ UNCHANGED <<pair, unit>>
    /\ pc[r] = "title_wait"
    /\ lock[req[r].session_id] = NoReq
    /\ WriteTitle(r, SessionTitle(req[r].query_text), "auto")
    /\ pc' = [pc EXCEPT ![r] = "finish"]
    /\ result' = [result EXCEPT ![r] = Shaped(r, loc[r].query_record)]
    /\ http' = [http EXCEPT ![r] =
                  submit_query_response(Shaped(r, loc[r].query_record))]
    /\ UNCHANGED <<sessions, queries, next_query_id, clock, inflight, req, loc, calls,
                   started, auto_titles>>

(***************************************************************************)
(* RAGService.get_conversation_history.                                    *)
(***************************************************************************)
Hist_Check(r) ==
    /\ UNCHANGED <<pair, unit>>
    /\ pc[r] = "check" /\ req[r].op = "get_conversation_history"
    /\ LET session == get_session_by_id(sessions, req[r].session_id)
       IN /\ clock' = clock + 1
          /\ tx' = [tx EXCEPT ![r].started_at = clock + 1]
          /\ IF SessionAccessible(session, req[r].user_id)
             THEN /\ pc' = [pc EXCEPT ![r] = "hist_read"]
                  /\ UNCHANGED <<result, http>>
             ELSE /\ pc' = [pc EXCEPT ![r] = "finish"]
                  /\ result' = [result EXCEPT ![r] = NoneResult]
                  /\ http' = [http EXCEPT ![r] =
                                get_conversation_history_response(NoneResult)]
    /\ UNCHANGED <<sessions, queries, next_query_id, lock, inflight, req, loc, calls,
                   started, auto_titles>>

Hist_Read(r) ==
    /\ UNCHANGED <<pair, unit>>
    /\ pc[r] = "hist_read"
    /\ LET res == [kind |-> "QueryList",
                   value |-> HistoryResponses(
                                 get_queries_by_session_id(queries \cup tx[r].inserted,
                                                           req[r].session_id))]
       IN /\ result' = [result EXCEPT ![r] = res]
          /\ http' = [http EXCEPT ![r] = get_conversation_history_response(res)]
    /\ pc' = [pc EXCEPT ![r] = "finish"]
    /\ UNCHANGED <<sessions, queries, next_query_id, clock, lock, inflight, req, tx, loc,
                   calls, started, auto_titles>>

(***************************************************************************)
(* SessionService.update_session_title / delete_session and their routes.  *)
(***************************************************************************)
SessionNotFound == [status |-> 404, detail |-> SESSION_NOT_FOUND_DETAIL]
SessionOk(op) == IF op = "delete_session" THEN [status |-> 204, detail |-> ""]
                 ELSE [status |-> 200, detail |-> "Session updated successfully"]
Refusal(op) == IF op = "delete_session" THEN [kind |-> "False", value |-> <<>>]
               ELSE [kind |-> "None", value |-> <<>>]
Success(op) == IF op = "delete_session" THEN [kind |-> "True", value |-> <<>>]
               ELSE [kind |-> "SessionResponse", value |-> <<>>]

\* session = await get_session_by_id(session_id);
\* "if session and session.user_id == user_id"
Svc_Check(r) ==
    /\ UNCHANGED <<pair, unit>>
    /\ pc[r] = "check" /\ req[r].op \in {"update_session_title", "delete_session"}
    /\ LET session == get_session_by_id(sessions, req[r].session_id)
       IN /\ clock' = clock + 1
          /\ tx' = [tx EXCEPT ![r].started_at = clock + 1]
          /\ IF SessionAccessible(session, req[r].user_id)
             THEN /\ pc' = [pc EXCEPT ![r] = "write"]
                  /\ UNCHANGED <<result, http>>
             ELSE /\ pc' = [pc EXCEPT ![r] = "finish"]
                  /\ result' = [result EXCEPT ![r] = Refusal(req[r].op)]
                  /\ http' = [http EXCEPT ![r] = SessionNotFound]
    /\ UNCHANGED <<sessions, queries, next_query_id, lock, inflight, req, loc, calls,
                   started, auto_titles>>

\* The repository's update: title (update_session_title) or is_obsolete
\* (delete_session), flushed under the row's lock.
WriteRow(r) ==
    /\ tx' = [tx EXCEPT ![r].set_title = (req[r].op = "update_session_title"),
                        ![r].title = req[r].title,
                        ![r].title_origin =
                            IF req[r].op = "update_session_title" THEN "explicit" ELSE "",
                        ![r].set_obsolete = (req[r].op = "delete_session")]
    /\ lock' = [lock EXCEPT ![req[r].session_id] = r]
    /\ result' = [result EXCEPT ![r] = Success(req[r].op)]
    /\ http' = [http EXCEPT ![r] = SessionOk(req[r].op)]

\* SessionRepository.update_session_title / delete_session: look the session
\* up again, write if it is there.
Svc_Write(r) ==
    /\ UNCHANGED <<pair, unit>>
    /\ pc[r] = "write"
    /\ LET session == get_session_by_id(sessions, req[r].session_id)
       IN IF ~session.present
          THEN /\ pc' = [pc EXCEPT ![r] = "finish"]
               /\ result' = [result EXCEPT ![r] = Refusal(req[r].op)]
               /\ http' = [http EXCEPT ![r] = SessionNotFound]
               /\ UNCHANGED <<tx, lock>>
          ELSE IF lock[req[r].session_id] \in {NoReq, r}
          THEN /\ WriteRow(r)
               /\ pc' = [pc EXCEPT ![r] = "finish"]
          ELSE /\ pc' = [pc EXCEPT ![r] = "write_wait"]
               /\ UNCHANGED <<tx, lock, result, http>>
    /\ UNCHANGED <<sessions, queries, next_query_id, clock, inflight, req, loc, calls,
                   started, auto_titles>>

Svc_WriteAfterWait(r) ==
    /\ UNCHANGED <<pair, unit>>
    /\ pc[r] = "write_wait"
    /\ lock[req[r].session_id] = NoReq
    /\ WriteRow(r)
    /\ pc' = [pc EXCEPT ![r] = "finish"]
    /\ UNCHANGED <<sessions, queries, next_query_id, clock, inflight, req, loc, calls,
                   started, auto_titles>>

(***************************************************************************)
(* get_db: commit after the route returned, rollback after it raised; and  *)
(* RequestTimeoutMiddleware: the request is cancelled at an await.  When   *)
(* the request is over its objects are gone; the response is kept.         *)
(***************************************************************************)
ApplyWrites(sess, r) ==
    [s \in DOMAIN sess |->
        IF s # req[r].session_id THEN sess[s]
        ELSE [sess[s] EXCEPT
                !.title = IF tx[r].set_title THEN tx[r].title ELSE @,
                !.is_obsolete = IF tx[r].set_obsolete THEN TRUE ELSE @]]

ReleaseLocks(r) == [s \in DOMAIN lock |-> IF lock[s] = r THEN NoReq ELSE lock[s]]

\* A commit whose deletion is a hard one: the session's turns go with it.
CommitTx_HardDelete(r) ==
    /\ queries' = {q \in queries \cup tx[r].inserted :
                     ~(tx[r].set_obsolete /\ q.session_id = req[r].session_id)}
    /\ sessions' = [s \in DOMAIN sessions |->
                      IF s # req[r].session_id THEN sessions[s]
                      ELSE [sessions[s] EXCEPT
                              !.title = IF tx[r].set_title THEN tx[r].title ELSE @,
                              !.is_obsolete = IF tx[r].set_obsolete THEN TRUE ELSE @]]
    /\ auto_titles' =
         [s \in DOMAIN auto_titles |->
            IF s = req[r].session_id /\ tx[r].set_title /\ tx[r].title_origin = "auto"
            THEN auto_titles[s] + 1 ELSE auto_titles[s]]
    /\ lock' = [s \in DOMAIN lock |-> IF lock[s] = r THEN NoReq ELSE lock[s]]

CommitTx(r) ==
    /\ queries' = queries \cup tx[r].inserted
    /\ sessions' = ApplyWrites(sessions, r)
    /\ auto_titles' =
         [s \in DOMAIN auto_titles |->
            IF s = req[r].session_id /\ tx[r].set_title /\ tx[r].title_origin = "auto"
            THEN auto_titles[s] + 1 ELSE auto_titles[s]]
    /\ lock' = ReleaseLocks(r)

\* A close of the session that commits what was flushed.
RollbackTx_Commits(r) == CommitTx(r)

RollbackTx(r) ==
    /\ lock' = ReleaseLocks(r)
    /\ UNCHANGED <<queries, sessions, auto_titles>>

EndRequest(r) ==
    /\ pc' = [pc EXCEPT ![r] = "done"]
    /\ req' = [req EXCEPT ![r] = NoRequest]
    /\ tx' = [tx EXCEPT ![r] = NoTx]
    /\ loc' = [loc EXCEPT ![r] = NoLocals]
    /\ calls' = [calls EXCEPT ![r] = NoCalls]
    /\ inflight' = [inflight EXCEPT ![r] = NoCall]
    /\ result' = [result EXCEPT ![r] = NoResult]

\* The handler returned a response: "await session.commit()".
Commit(r) ==
    /\ UNCHANGED <<pair, unit>>
    /\ pc[r] = "finish"
    /\ DbExit(http[r].status >= 400) = "commit"
    /\ CommitTx(r)
    /\ EndRequest(r)
    /\ UNCHANGED <<next_query_id, clock, http, started>>

\* The handler raised: "await session.rollback()" in every except clause.
Rollback(r) ==
    /\ UNCHANGED <<pair, unit>>
    /\ pc[r] = "finish"
    /\ DbExit(http[r].status >= 400) = "rollback"
    /\ RollbackTx(r)
    /\ EndRequest(r)
    /\ UNCHANGED <<next_query_id, clock, http, started>>

\* asyncio.wait_for cancels the handler at the await it is suspended on; the
\* session is closed without a commit and the client gets a 504.
InHandler == {"check", "extract", "retrieve", "history", "generate", "create", "title",
              "title_wait", "hist_read", "write", "write_wait", "finish"}

Cancel(r) ==
    /\ UNCHANGED <<pair, unit>>
    /\ pc[r] \in InHandler
    /\ RollbackTx(r)
    /\ EndRequest(r)
    /\ http' = [http EXCEPT ![r] = TimeoutResponse]
    /\ UNCHANGED <<next_query_id, clock, started>>

(***************************************************************************)
(* One call run from its first to its last statement on a given store     *)
(* (no other transaction in between), with the answers ext of the external *)
(* services: the store after its commit or rollback, what the service      *)
(* method returned and what the route answered.                            *)
(***************************************************************************)
ExtAnswers == [extract_reply : {"timeout", "text"}, wiki : WikiWorlds,
               gen_reply : OpenAIReplies, db_ok : BOOLEAN]

Began(st) == [st EXCEPT !.clock = @ + 1]

RunProcessQuery(st, q, ext) ==
    LET session == get_session_by_id(st.sessions, q.session_id)
        search_terms == _extract_search_terms(ext.extract_reply, q.query_text)
        c == get_context_for_query(ext.wiki, DEFAULT_MAX_ARTICLES)
        recent == get_recent_queries_by_session_id(st.queries, q.session_id, HISTORY_LIMIT)
        response_text == _get_openai_response(ext.gen_reply)
        outcome == CreateOutcome(response_text, ext.db_ok)
        row == [query_id |-> st.next_query_id, session_id |-> q.session_id,
                query_text |-> q.query_text, response_text |-> response_text,
                input_mode |-> q.input_mode, created_at |-> st.clock + 1]
        res == ShapedResult(row, c.context, c.sources)
    IN IF ~SessionAccessible(session, q.user_id)
       THEN [store |-> Began(st), result |-> NoneResult,
             http |-> submit_query_response(NoneResult)]
       ELSE IF outcome # "ok"
       THEN [store |-> Began(st), result |-> RaisedResult(outcome),
             http |-> GetDbError(outcome)]
       ELSE [store |->
                [Began(st) EXCEPT
                   !.queries = create_query(@, row),
                   !.next_query_id = @ + 1,
                   !.sessions = IF IsFirstTurn(recent)
                                THEN [@ EXCEPT ![q.session_id].title =
                                                  SessionTitle(q.query_text)]
                                ELSE @],
             result |-> res, http |-> submit_query_response(res)]

RunGetConversationHistory(st, q) ==
    LET session == get_session_by_id(st.sessions, q.session_id)
        res == [kind |-> "QueryList",
                value |-> HistoryResponses(
                              get_queries_by_session_id(st.queries, q.session_id))]
    IN IF ~SessionAccessible(session, q.user_id)
       THEN [store |-> Began(st), result |-> NoneResult,
             http |-> get_conversation_history_response(NoneResult)]
       ELSE [store |-> Began(st), result |-> res,
             http |-> get_conversation_history_response(res)]

(***************************************************************************)
(* Two stores side by side: in one, session SecretSession exists and is    *)
(* owned by OtherUser (with or without a turn, under either title); in the *)
(* other it does not exist.  Everything else is the same.  Prober sends    *)
(* the same calls to both.                                                 *)
(***************************************************************************)
PairMaxRequests == 2
Cast == [prober |-> 1, other |-> 2, secret |-> 2]
Prober == Cast.prober
OtherUser == Cast.other
SecretSession == Cast.secret

SecretTurn == [query_id |-> 1, session_id |-> SecretSession, query_text |-> ShortQuery,
               response_text |-> AI_TEXT, input_mode |-> "text", created_at |-> 1]

PairInit ==
    /\ sessions = [s \in SessionIds |-> IF s = 1 THEN SessionRow(1, DEFAULT_TITLE) ELSE NoSession]
    /\ queries = {}
    /\ next_query_id = 1
    /\ clock = 0
    /\ lock = [s \in SessionIds |-> NoReq]
    /\ inflight = [r \in Reqs |-> NoCall]
    /\ pc = [r \in Reqs |-> "idle"]
    /\ req = [r \in Reqs |-> NoRequest]
    /\ tx = [r \in Reqs |-> NoTx]
    /\ loc = [r \in Reqs |-> NoLocals]
    /\ calls = [r \in Reqs |-> NoCalls]
    /\ result = [r \in Reqs |-> NoResult]
    /\ http = [r \in Reqs |-> NoHttp]
    /\ started = 0
    /\ auto_titles = [s \in SessionIds |-> 0]
    /\ \E t \in {DEFAULT_TITLE, USER_TITLE}, secret_turns \in {{}, {SecretTurn}} :
         LET absent == [sessions |-> [s \in SessionIds |->
                                        IF s = SecretSession THEN NoSession
                                        ELSE SessionRow(Prober, DEFAULT_TITLE)],
                        queries |-> {}, next_query_id |-> 2, clock |-> 1]
         IN pair = [NoPair EXCEPT
                      !.store = [w \in PairWorlds |->
                                   IF w = "absent" THEN absent
                                   ELSE [absent EXCEPT
                                           !.sessions[SecretSession] = SessionRow(OtherUser, t),
                                           !.queries = secret_turns]]]
    /\ unit = NoUnit

ProberRequests(op) == {q \in RequestsWith(QueryInputs) : q.user_id = Prober /\ q.op = op}

PairProcessQuery ==
    /\ pair.count < PairMaxRequests
    /\ \E q \in ProberRequests("process_query"), ext \in ExtAnswers :
         pair' = [store |-> [w \in PairWorlds |-> RunProcessQuery(pair.store[w], q, ext).store],
                  req |-> q,
                  out |-> [w \in PairWorlds |->
                             [result |-> RunProcessQuery(pair.store[w], q, ext).result,
                              http |-> RunProcessQuery(pair.store[w], q, ext).http]],
                  count |-> pair.count + 1]
    /\ UNCHANGED <<sessions, queries, next_query_id, clock, lock, inflight, pc, req, tx,
                   loc, calls, result, http, started, auto_titles, unit>>

PairGetHistory ==
    /\ pair.count < PairMaxRequests
    /\ \E q \in ProberRequests("get_conversation_history") :
         pair' = [store |-> [w \in PairWorlds |->
                               RunGetConversationHistory(pair.store[w], q).store],
                  req |-> q,
                  out |-> [w \in PairWorlds |->
                             [result |-> RunGetConversationHistory(pair.store[w], q).result,
                              http |-> RunGetConversationHistory(pair.store[w], q).http]],
                  count |-> pair.count + 1]
    /\ UNCHANGED <<sessions, queries, next_query_id, clock, lock, inflight, pc, req, tx,
                   loc, calls, result, http, started, auto_titles, unit>>

PairNext == PairProcessQuery \/ PairGetHistory

SpecPair == PairInit /\ [][PairNext]_vars

(***************************************************************************)
(* WikipediaClient on its own: one search_articles or                      *)
(* get_context_for_query call, for every answer of the search service of   *)
(* up to MaxHits candidates (word count below, at and above the minimum or *)
(* missing; extract present, empty or failing) and every max_articles up   *)
(* to MaxArticles.                                                         *)
(***************************************************************************)
Digits == <<"1", "2", "3", "4", "5", "6", "7", "8", "9">>
PositionTitle(i) == <<"T", " ", Digits[i]>>
PositionExtract(i) == <<"x", Digits[i]>>
Body == <<"<extract>">>
CandidateKinds ==
    { [wordcount |-> MIN_ARTICLE_WORDS - 1, extract |-> Body],
      [wordcount |-> MIN_ARTICLE_WORDS, extract |-> Body],
      [wordcount |-> -1, extract |-> Body],
      [wordcount |-> MIN_ARTICLE_WORDS * 10, extract |-> Body],
      [wordcount |-> MIN_ARTICLE_WORDS * 10, extract |-> NoExtract],
      [wordcount |-> MIN_ARTICLE_WORDS, extract |-> <<>>] }
CandidateLists == UNION { [1..n -> CandidateKinds] : n \in 0..MaxHits }
MakeHits(f) ==
    [i \in 1..Len(f) |->
        Hit(PositionTitle(i), f[i].wordcount,
            IF f[i].extract = Body THEN PositionExtract(i) ELSE f[i].extract)]
SearchAnswers == { [search_ok |-> ok, hits |-> MakeHits(f)] :
                     ok \in BOOLEAN, f \in CandidateLists }

MainUnchanged ==
    UNCHANGED <<sessions, queries, next_query_id, clock, lock, inflight, pc, req, tx,
                loc, calls, result, http, started, auto_titles, pair>>

WikiSearch ==
    /\ unit = NoUnit
    /\ \E w \in SearchAnswers :
         unit' = [fn |-> "search_articles", input |-> [wiki |-> w, max_articles |-> 0],
                  output |-> search_articles(w)]
    /\ MainUnchanged

WikiGetContext ==
    /\ unit = NoUnit
    /\ \E w \in SearchAnswers, m \in 0..MaxArticles :
         unit' = [fn |-> "get_context_for_query",
                  input |-> [wiki |-> w, max_articles |-> m],
                  output |-> get_context_for_query(w, m)]
    /\ MainUnchanged

WikiNext == WikiSearch \/ WikiGetContext

SpecWiki == Init /\ [][WikiNext]_vars

(***************************************************************************)
(* The first turn of a fresh session, for every length of the query text   *)
(* up to MaxQueryLen: the owner's process_query run on a store with one    *)
(* session and no turn, all services answering.                            *)
(***************************************************************************)
TextOfLength(n) == [i \in 1..n |-> Digits[(i % 9) + 1]]
FreshStore ==
    [sessions |-> [s \in SessionIds |->
                     IF s = 1 THEN SessionRow(1, DEFAULT_TITLE) ELSE NoSession],
     queries |-> {}, next_query_id |-> 1, clock |-> 0]
AllAnswering == [extract_reply |-> "text", wiki |-> [search_ok |-> TRUE, hits |-> <<>>],
                 gen_reply |-> "text", db_ok |-> TRUE]
FirstTurnRequest(query_text) ==
    [op |-> "process_query", user_id |-> 1, session_id |-> 1,
     query_text |-> query_text, input_mode |-> "text", title |-> <<>>]

FirstTurn ==
    /\ unit = NoUnit
    /\ \E n \in 1..MaxQueryLen :
         LET q == FirstTurnRequest(TextOfLength(n))
             run == RunProcessQuery(FreshStore, q, AllAnswering)
         IN unit' = [fn |-> "first_turn", input |-> q,
                     output |-> [title |-> run.store.sessions[q.session_id].title,
                                 http |-> run.http]]
    /\ MainUnchanged

SpecTitle == Init /\ [][FirstTurn]_vars

(***************************************************************************)
(* get_conversation_history on its own, and process_query beside it, for   *)
(* every user and session on stores where session 1 (of user 1) is live or *)
(* soft-deleted and holds any of MaxTurns turns whose ids are not in the   *)
(* order of their creation times (transactions that began earlier may      *)
(* insert later), and session 2 is absent or belongs to user 2 with or     *)
(* without a turn.                                                         *)
(***************************************************************************)
StoredTurn(i, s, at) ==
    [query_id |-> i, session_id |-> s, query_text |-> TextOfLength(i),
     response_text |-> AI_TEXT, input_mode |-> "text", created_at |-> at]
TurnPool == { StoredTurn(i, 1, IF i % 2 = 1 THEN i + 1 ELSE i - 1) : i \in 1..MaxTurns }
OtherTurn == StoredTurn(MaxTurns + 1, 2, 1)
HistoryStores ==
    { [sessions |-> [s \in SessionIds |->
                       IF s = 1 THEN [SessionRow(1, DEFAULT_TITLE) EXCEPT !.is_obsolete = gone]
                       ELSE IF other THEN SessionRow(2, USER_TITLE) ELSE NoSession],
       queries |-> turns \cup more,
       next_query_id |-> MaxTurns + 2, clock |-> MaxTurns + 2] :
      gone \in BOOLEAN, other \in BOOLEAN, turns \in SUBSET TurnPool,
      more \in {{}, {OtherTurn}} }
ValidStore(st) == \A q \in st.queries : st.sessions[q.session_id].present

HistoryCall ==
    /\ unit = NoUnit
    /\ \E st \in HistoryStores, u \in Users, s \in SessionIds :
         LET q == [op |-> "get_conversation_history", user_id |-> u, session_id |-> s,
                   query_text |-> <<>>, input_mode |-> "", title |-> <<>>]
             p == [FirstTurnRequest(ShortQuery) EXCEPT !.user_id = u, !.session_id = s]
         IN /\ ValidStore(st)
            /\ unit' = [fn |-> "get_conversation_history",
                        input |-> [store |-> st, req |-> q],
                        output |-> [history |-> RunGetConversationHistory(st, q),
                                    process_query |->
                                        RunProcessQuery(st, p, AllAnswering).result]]
    /\ MainUnchanged

SpecHistory == Init /\ [][HistoryCall]_vars

(***************************************************************************)
(* SessionService.get_session / update_session_title / delete_session, one *)
(* call run from its first to its last statement, for every user and       *)
(* session on stores where each session is absent, live or soft-deleted    *)
(* and owned by either user; repo_calls lists the repository's writing     *)
(* methods the call invoked.                                               *)
(***************************************************************************)
\* SessionRepository.update_session_title: look the session up, set its title.
update_session_title(sess, session_id, title) ==
    IF get_session_by_id(sess, session_id).present
    THEN [sess EXCEPT ![session_id].title = title]
    ELSE sess

\* SessionRepository.delete_session: look the session up, set is_obsolete.
delete_session(sess, session_id) ==
    IF get_session_by_id(sess, session_id).present
    THEN [sess EXCEPT ![session_id].is_obsolete = TRUE]
    ELSE sess

SessionResponse(session) == [kind |-> "SessionResponse", value |-> <<session.title>>]

RunGetSession(st, q) ==
    LET session == get_session_by_id(st.sessions, q.session_id)
    IN [store |-> Began(st),
        result |-> IF SessionAccessible(session, q.user_id)
                   THEN SessionResponse(session) ELSE NoneResult,
        repo_calls |-> <<>>]

RunUpdateSessionTitle(st, q) ==
    LET session == get_session_by_id(st.sessions, q.session_id)
        written == update_session_title(st.sessions, q.session_id, q.title)
        updated == get_session_by_id(written, q.session_id)
    IN IF SessionAccessible(session, q.user_id)
       THEN [store |-> [Began(st) EXCEPT !.sessions = written],
             result |-> IF updated.present THEN SessionResponse(updated) ELSE NoneResult,
             repo_calls |-> <<"update_session_title">>]
       ELSE [store |-> Began(st), result |-> NoneResult, repo_calls |-> <<>>]

RunDeleteSession(st, q) ==
    LET session == get_session_by_id(st.sessions, q.session_id)
        found == get_session_by_id(st.sessions, q.session_id).present
    IN IF SessionAccessible(session, q.user_id)
       THEN [store |-> [Began(st) EXCEPT !.sessions = delete_session(@, q.session_id)],
             result |-> [kind |-> IF found THEN "True" ELSE "False", value |-> <<>>],
             repo_calls |-> <<"delete_session">>]
       ELSE [store |-> Began(st), result |-> [kind |-> "False", value |-> <<>>],
             repo_calls |-> <<>>]

SessionStates ==
    {NoSession} \cup
    { [SessionRow(u, DEFAULT_TITLE) EXCEPT !.is_obsolete = gone] :
        u \in Users, gone \in BOOLEAN }
SessionStores ==
    { [sessions |-> sess, queries |-> {}, next_query_id |-> 1, clock |-> 1] :
        sess \in [SessionIds -> SessionStates] }
SessionRequests ==
    { [op |-> o, user_id |-> u, session_id |-> s, query_text |-> <<>>, input_mode |-> "",
       title |-> IF o = "update_session_title" THEN USER_TITLE ELSE <<>>] :
      o \in {"get_session", "update_session_title", "delete_session"},
      u \in Users, s \in SessionIds }

SessionCall ==
    /\ unit = NoUnit
    /\ \E st \in SessionStores, q \in SessionRequests :
         unit' = [fn |-> "session_service",
                  input |-> [store |-> st, req |-> q],
                  output |-> CASE q.op = "get_session" -> RunGetSession(st, q)
                               [] q.op = "update_session_title" ->
                                      RunUpdateSessionTitle(st, q)
                               [] OTHER -> RunDeleteSession(st, q)]
    /\ MainUnchanged

SpecSession == Init /\ [][SessionCall]_vars

(***************************************************************************)
(* QueryRequest: pydantic's validation of the body of POST /queries, then  *)
(* the submit_query route run on what it accepted.  The bodies: a text of  *)
(* a length around the limits, or a phrase, between up to MaxPad           *)
(* whitespace characters on either side, with an input_mode that is given  *)
(* or missing.                                                             *)
(***************************************************************************)
MAX_QUERY_LENGTH == 2000
MIN_QUERY_LENGTH == 1

UpperCase == <<"A", "B", "C", "D", "E", "F", "G", "H", "I", "J", "K", "L", "M", "N", "O", "P", "Q", "R", "S", "T", "U", "V", "W", "X", "Y", "Z">>
LowerCase == <<"a", "b", "c", "d", "e", "f", "g", "h", "i", "j", "k", "l", "m", "n", "o", "p", "q", "r", "s", "t", "u", "v", "w", "x", "y", "z">>
LowerChar(c) ==
    IF \E i \in 1..Len(UpperCase) : UpperCase[i] = c
    THEN LowerCase[CHOOSE i \in 1..Len(UpperCase) : UpperCase[i] = c]
    ELSE c
\* str.lower(), as a sequence value
Lower(s) == SubSeq([i \in 1..Len(s) |-> LowerChar(s[i])], 1, Len(s))

\* The regular expressions: a literal, \s+ or \s* (ws, with its minimum), or
\* a choice between sequences of these.
Lit(s) == [k |-> "lit", s |-> s, min |-> 0, alts |-> {}]
Ws(min) == [k |-> "ws", s |-> <<>>, min |-> min, alts |-> {}]
Alt(alts) == [k |-> "alt", s |-> <<>>, min |-> 0, alts |-> alts]
\* (all\s+|the\s+)?
OptArticle == Alt({<<>>, <<Lit(<<"a", "l", "l">>), Ws(1)>>,
                   <<Lit(<<"t", "h", "e">>), Ws(1)>>})
\* (previous|above)
PreviousOrAbove == Alt({<<Lit(<<"p", "r", "e", "v", "i", "o", "u", "s">>)>>,
                        <<Lit(<<"a", "b", "o", "v", "e">>)>>})
PROMPT_INJECTION_PATTERNS ==
    << <<Lit(<<"i", "g", "n", "o", "r", "e">>), Ws(1), OptArticle, PreviousOrAbove, Ws(1),
         Lit(<<"i", "n", "s", "t", "r", "u", "c", "t", "i", "o", "n", "s">>)>>,
       <<Lit(<<"d", "i", "s", "r", "e", "g", "a", "r", "d">>), Ws(1), OptArticle,
         PreviousOrAbove>>,
       <<Lit(<<"f", "o", "r", "g", "e", "t">>), Ws(1), OptArticle, PreviousOrAbove>>,
       <<Lit(<<"y", "o", "u">>), Ws(1), Lit(<<"a", "r", "e">>), Ws(1),
         Lit(<<"n", "o", "w">>), Ws(1),
         Alt({<<Lit(<<"a">>)>>, <<Lit(<<"a", "n">>)>>})>>,
       <<Lit(<<"n", "e", "w">>), Ws(1),
         Lit(<<"i", "n", "s", "t", "r", "u", "c", "t", "i", "o", "n", "s", ":">>)>>,
       <<Lit(<<"s", "y", "s", "t", "e", "m">>), Ws(0), Lit(<<":">>), Ws(0)>> >>

\* The number of whitespace characters of t from position i on.
RECURSIVE WsRun(_, _)
WsRun(t, i) == IF i <= Len(t) /\ t[i] \in Whitespace THEN 1 + WsRun(t, i + 1) ELSE 0
\* The positions after a match of toks that starts at position i of t.
RECURSIVE MatchEnds(_, _, _)
MatchEnds(t, i, toks) ==
    IF Len(toks) = 0 THEN {i}
    ELSE LET h == Head(toks)
             rest == Tail(toks)
         IN CASE h.k = "lit" ->
                   IF /\ i + Len(h.s) - 1 <= Len(t)
                      /\ \A k \in 1..Len(h.s) : t[i + k - 1] = h.s[k]
                   THEN MatchEnds(t, i + Len(h.s), rest)
                   ELSE {}
              [] h.k = "ws" ->
                   UNION { MatchEnds(t, j, rest) : j \in (i + h.min)..(i + WsRun(t, i)) }
              [] OTHER ->
                   UNION { MatchEnds(t, i, a \o rest) : a \in h.alts }
\* re.search(pattern, t)
Search(toks, t) == \E i \in 1..(Len(t) + 1) : MatchEnds(t, i, toks) # {}

Accepted(v) == [ok |-> TRUE, value |-> v, error |-> ""]
Rejected(msg) == [ok |-> FALSE, value |-> <<>>, error |-> msg]

\* The validator without its strip().
validate_query_text_untrimmed(v) ==
    IF Len(v) < MIN_QUERY_LENGTH THEN Rejected("Query cannot be empty")
    ELSE IF Len(v) > MAX_QUERY_LENGTH THEN Rejected("Query exceeds maximum length")
    ELSE IF \E p \in 1..Len(PROMPT_INJECTION_PATTERNS) :
                Search(PROMPT_INJECTION_PATTERNS[p], Lower(v))
         THEN Rejected("Query contains disallowed content")
         ELSE Accepted(v)

validate_query_text(v) ==
    LET s == Strip(v)
    IN IF Len(s) < MIN_QUERY_LENGTH THEN Rejected("Query cannot be empty")
       ELSE IF Len(s) > MAX_QUERY_LENGTH THEN Rejected("Query exceeds maximum length")
       ELSE IF \E p \in 1..Len(PROMPT_INJECTION_PATTERNS) :
                   Search(PROMPT_INJECTION_PATTERNS[p], Lower(s))
            THEN Rejected("Query contains disallowed content")
            ELSE Accepted(s)

\* input_mode: Literal["text", "voice"] = "text"
NotGiven == "<not given>"
InputModeField(m) ==
    IF m = NotGiven THEN [ok |-> TRUE, value |-> "text", error |-> ""]
    ELSE IF m \in {"text", "voice"} THEN [ok |-> TRUE, value |-> m, error |-> ""]
    ELSE [ok |-> FALSE, value |-> "", error |-> "Input should be 'text' or 'voice'"]

QueryRequest(body) ==
    LET t == validate_query_text(body.query_text)
        m == InputModeField(body.input_mode)
    IN [accepted |-> t.ok /\ m.ok, query_text |-> t.value, input_mode |-> m.value,
        errors |-> {t.error, m.error} \ {""}]

PadOfLength(n) == [i \in 1..n |-> IF i % 2 = 1 THEN " " ELSE "\n"]
Pads == { PadOfLength(n) : n \in 0..MaxPad }
Phrases ==
    { <<"a", " ", "b">>,
      <<"I", "g", "n", "o", "r", "e", " ", " ", "t", "h", "e", " ", "p", "r", "e", "v", "i", "o", "u", "s", "	", "i", "n", "s", "t", "r", "u", "c", "t", "i", "o", "n", "s">>,
      <<"i", "g", "n", "o", "r", "e", " ", "i", "n", "s", "t", "r", "u", "c", "t", "i", "o", "n", "s">>,
      <<"F", "o", "r", "g", "e", "t", " ", "a", "b", "o", "v", "e">>,
      <<"Y", "o", "u", " ", "a", "r", "e", " ", "n", "o", "w", " ", "a", "n">>,
      <<"S", "Y", "S", "T", "E", "M", " ", ":">>,
      <<"n", "e", "w", " ", "i", "n", "s", "t", "r", "u", "c", "t", "i", "o", "n", "s", ":">> }
Cores ==
    { TextOfLength(n) : n \in {0, MIN_QUERY_LENGTH, MIN_QUERY_LENGTH + 1,
                               MAX_QUERY_LENGTH - 1, MAX_QUERY_LENGTH,
                               MAX_QUERY_LENGTH + 1} } \cup Phrases
Bodies ==
    { [session_id |-> 1, query_text |-> a \o c \o b, input_mode |-> m] :
        a \in Pads, c \in Cores, b \in Pads,
        m \in {"text", "voice", "TEXT", "audio", NotGiven} }

\* FastAPI builds the QueryRequest from the body.
ParseBody ==
    /\ unit = NoUnit
    /\ \E body \in Bodies :
         unit' = [fn |-> "QueryRequest", input |-> body,
                  output |-> [request |-> QueryRequest(body), status |-> 0,
                              persisted |-> {}]]
    /\ MainUnchanged

\* A body that fails validation is answered with 422, the route is not called.
Unprocessable ==
    /\ unit.fn = "QueryRequest"
    /\ ~unit.output.request.accepted
    /\ unit' = [unit EXCEPT !.fn = "submit_query", !.output.status = 422]
    /\ MainUnchanged

\* submit_query passes request.query_text and request.input_mode to
\* process_query.
SubmitQuery ==
    /\ unit.fn = "QueryRequest"
    /\ unit.output.request.accepted
    /\ LET request == unit.output.request
           q == [FirstTurnRequest(request.query_text) EXCEPT
                   !.session_id = unit.input.session_id,
                   !.input_mode = request.input_mode]
           run == RunProcessQuery(FreshStore, q, AllAnswering)
       IN unit' = [unit EXCEPT !.fn = "submit_query",
                               !.output.status = run.http.status,
                               !.output.persisted = run.store.queries]
    /\ MainUnchanged

ValidateNext == ParseBody \/ Unprocessable \/ SubmitQuery

SpecValidate == Init /\ [][ValidateNext]_vars

(***************************************************************************)
(* process_query with what it hands to its collaborators: the text given   *)
(* to the retriever, the history and the messages given to the generator,  *)
(* and the run's outcome; on the stores of SpecHistory, for every user,    *)
(* session and utterance, the extractor answering or not and the search    *)
(* finding nothing or two articles.                                        *)
(***************************************************************************)
ProcessQueryTrace(st, q, ext) ==
    LET session == get_session_by_id(st.sessions, q.session_id)
        search_terms == _extract_search_terms(ext.extract_reply, q.query_text)
        c == get_context_for_query(ext.wiki, DEFAULT_MAX_ARTICLES)
        recent == get_recent_queries_by_session_id(st.queries, q.session_id, HISTORY_LIMIT)
    IN [reached |-> SessionAccessible(session, q.user_id),
        retriever_query |-> search_terms,
        wikipedia_context |-> c.context,
        conversation_history |-> recent,
        messages |-> _build_messages(c.context, recent, q.query_text),
        run |-> RunProcessQuery(st, q, ext)]

TraceAnswers ==
    { ext \in ExtAnswers :
        /\ ext.gen_reply = "text" /\ ext.db_ok
        /\ ext.wiki.search_ok
        /\ Len(ext.wiki.hits) # 1 }

TraceCall ==
    /\ unit = NoUnit
    /\ \E st \in HistoryStores, q \in RequestsWith(QueryInputs), ext \in TraceAnswers :
         /\ ValidStore(st)
         /\ q.op = "process_query"
         /\ unit' = [fn |-> "process_query",
                     input |-> [store |-> st, req |-> q, ext |-> ext],
                     output |-> ProcessQueryTrace(st, q, ext)]
    /\ MainUnchanged

SpecTrace == Init /\ [][TraceCall]_vars

(***************************************************************************)
(* The time budget of a submit_query request: RequestTimeoutMiddleware     *)
(* wraps the whole request in asyncio.wait_for(..., request_timeout),      *)
(* while each external call has the timeout of its httpx call or client.   *)
(* A call answers after 0..MaxDelay seconds or runs into its own timeout;  *)
(* the database takes no time.                                             *)
(***************************************************************************)
REQUEST_TIMEOUT == 20
EXTRACT_TIMEOUT == 10
GENERATE_TIMEOUT == 30
CLIENT_TIMEOUT == 60

Stages == <<"extract", "search", "fetch", "generate">>
StageTimeout(stage) ==
    CASE stage = "extract" -> EXTRACT_TIMEOUT
      [] stage = "generate" -> GENERATE_TIMEOUT
      [] OTHER -> CLIENT_TIMEOUT
Delays(stage) == (0..MaxDelay) \cup {StageTimeout(stage)}
NotReached == [s \in DOMAIN Stages |-> "not reached"]

\* The stages one after the other from stage i on, elapsed seconds into the
\* request: wait_for cancels the handler when the budget runs out during a
\* call; a call that reaches its own timeout first raises inside its try
\* block and the stage returns its fallback.
RECURSIVE RunStages(_, _, _, _)
RunStages(delay, i, elapsed, outcome) ==
    IF i > Len(Stages)
    THEN [status |-> 201, outcome |-> outcome, elapsed |-> elapsed]
    ELSE IF elapsed + delay[i] >= REQUEST_TIMEOUT
    THEN [status |-> TimeoutResponse.status,
          outcome |-> [outcome EXCEPT ![i] = "cancelled"],
          elapsed |-> REQUEST_TIMEOUT]
    ELSE RunStages(delay, i + 1, elapsed + delay[i],
                   [outcome EXCEPT ![i] = IF delay[i] = StageTimeout(Stages[i])
                                          THEN "fallback" ELSE "answer"])

TimedRequest ==
    /\ unit = NoUnit
    /\ \E extract \in Delays(Stages[1]), search \in Delays(Stages[2]),
          fetch \in Delays(Stages[3]), generate \in Delays(Stages[4]) :
         LET delay == <<extract, search, fetch, generate>>
         IN unit' = [fn |-> "timed_request", input |-> delay,
                     output |-> RunStages(delay, 1, 0, NotReached)]
    /\ MainUnchanged

SpecDeadline == Init /\ [][TimedRequest]_vars

(***************************************************************************)
(* A session after its owner deleted it: delete_session by the owner on a  *)
(* store, then up to MaxLaterOps further calls of any operation by any     *)
(* user, each run to its commit.                                           *)
(***************************************************************************)
\* SessionRepository.get_sessions_by_user_id: the live sessions of the user.
\* Every page (limit, offset, by updated_at) is a part of this set.
get_sessions_by_user_id(sess, user_id) ==
    { s \in DOMAIN sess :
        sess[s].present /\ sess[s].user_id = user_id /\ ~sess[s].is_obsolete }

RunGetUserSessions(st, q) ==
    [store |-> Began(st),
     result |-> [kind |-> "SessionList",
                 value |-> <<get_sessions_by_user_id(st.sessions, q.user_id)>>]]

DeletedStores ==
    { st \in [sessions : [SessionIds -> SessionStates],
              queries : SUBSET {StoredTurn(1, 1, 1), StoredTurn(2, 2, 2)},
              next_query_id : {3}, clock : {2}] :
        \A q \in st.queries : st.sessions[q.session_id].present }

DeleteRequest(u, s) ==
    [op |-> "delete_session", user_id |-> u, session_id |-> s, query_text |-> <<>>,
     input_mode |-> "", title |-> <<>>]

LaterRequests ==
    RequestsWith({[query_text |-> ShortQuery, input_mode |-> "voice"]})
    \cup { [DeleteRequest(u, s) EXCEPT !.op = "get_session"] : u \in Users, s \in SessionIds }
    \cup { [DeleteRequest(u, 0) EXCEPT !.op = "get_user_sessions"] : u \in Users }

RunLater(st, q) ==
    LET out == CASE q.op = "get_session" -> RunGetSession(st, q)
                 [] q.op = "update_session_title" -> RunUpdateSessionTitle(st, q)
                 [] q.op = "delete_session" -> RunDeleteSession(st, q)
                 [] q.op = "process_query" -> RunProcessQuery(st, q, AllAnswering)
                 [] q.op = "get_conversation_history" -> RunGetConversationHistory(st, q)
                 [] OTHER -> RunGetUserSessions(st, q)
    IN [store |-> out.store, result |-> out.result]

DeleteByOwner ==
    /\ unit = NoUnit
    /\ \E st \in DeletedStores, s \in SessionIds :
         LET q == DeleteRequest(st.sessions[s].user_id, s)
             out == RunDeleteSession(st, q)
         IN /\ out.result.kind = "True"
            /\ unit' = [fn |-> "deleted", input |-> [store |-> st, req |-> q],
                        output |-> [store |-> out.store, ops |-> 0, last |-> <<>>]]
    /\ MainUnchanged

LaterCall ==
    /\ unit.fn = "deleted"
    /\ unit.output.ops < MaxLaterOps
    /\ \E q \in LaterRequests :
         LET out == RunLater(unit.output.store, q)
         IN unit' = [unit EXCEPT
                       !.output = [store |-> out.store, ops |-> @.ops + 1,
                                   last |-> <<[req |-> q, result |-> out.result,
                                               before |-> unit.output.store]>>]]
    /\ MainUnchanged

DeletedNext == DeleteByOwner \/ LaterCall
SpecDeleted == Init /\ [][DeletedNext]_vars

(***************************************************************************)
(* The system.                                                             *)
(***************************************************************************)
Next ==
    \E r \in Reqs :
        \/ Receive(r)
        \/ PQ_Check(r)
        \/ PQ_Extract(r)
        \/ PQ_Retrieve(r)
        \/ PQ_History(r)
        \/ PQ_Generate(r)
        \/ PQ_Create(r)
        \/ PQ_Title(r)
        \/ PQ_TitleAfterWait(r)
        \/ Hist_Check(r)
        \/ Hist_Read(r)
        \/ Svc_Check(r)
        \/ Svc_Write(r)
        \/ Svc_WriteAfterWait(r)
        \/ Commit(r)
        \/ Rollback(r)
        \/ Cancel(r)

Spec == Init /\ [][Next]_vars

(***************************************************************************)
(* Properties.                                                             *)
(***************************************************************************)
\* The stored row of the session a request names does not let the request's
\* user in: no such row, a soft-deleted row, or a row of another user.
Unauthorized(r) ==
    LET row == sessions[req[r].session_id]
    IN ~row.present \/ row.is_obsolete \/ row.user_id # req[r].user_id

NothingDone(r) ==
    /\ calls[r] = NoCalls
    /\ tx[r].inserted = {}
    /\ ~tx[r].set_title
    /\ inflight[r] = NoCall

C1_Step ==
    \A r \in Reqs :
        req[r].op = "process_query" =>
            /\ (pc[r] = "check" /\ Unauthorized(r) /\ pc'[r] \notin {"check", "done"})
                 => /\ pc'[r] = "finish"
                    /\ result'[r] = NoneResult
                    /\ NothingDone(r)'
            /\ (pc[r] = "finish" /\ result[r] = NoneResult)
                 => /\ NothingDone(r)
                    /\ pc'[r] = "done" =>
                         /\ queries' = queries
                         /\ sessions' = sessions
                         /\ next_query_id' = next_query_id

\* C1: when the session named by process_query does not exist, is
\* soft-deleted or belongs to another user, process_query returns None
\* (not-found) without a topic extraction, a retrieval, a generation, a
\* created turn or a title update, and the request leaves the store as it was.
C1_NotFoundDoesNothing == [][C1_Step]_vars

\* A process_query of the owner on a session that was soft-deleted has
\* returned None.
C1_Witness ==
    \E r \in Reqs :
        /\ pc[r] = "finish" /\ req[r].op = "process_query"
        /\ result[r] = NoneResult
        /\ sessions[req[r].session_id].present
        /\ sessions[req[r].session_id].is_obsolete
        /\ sessions[req[r].session_id].user_id = req[r].user_id

NotFoundAnswer == [result |-> NoneResult,
                   http |-> [status |-> 404, detail |-> NOT_FOUND_DETAIL]]

C2_Step ==
    pair' # pair =>
        /\ pair'.out["owned_by_other"] = pair'.out["absent"]
        /\ pair'.req.session_id = SecretSession =>
              \A w \in PairWorlds :
                  /\ pair'.out[w] = NotFoundAnswer
                  /\ pair'.store[w].sessions = pair.store[w].sessions
                  /\ pair'.store[w].queries = pair.store[w].queries
                  /\ pair'.store[w].next_query_id = pair.store[w].next_query_id

\* C2: of two stores that differ only in whether session S exists owned by
\* another user or does not exist, process_query and get_conversation_history
\* of S by user U1 give U1 the same result (None, HTTP 404 with the same
\* detail) in both, and leave sessions and turns of both as they were.
C2_MismatchLikeAbsence == [][C2_Step]_vars

\* The prober has asked for the other user's session, which holds a turn in
\* the store where it exists, and has been answered.
C2_Witness ==
    /\ pair.count > 0
    /\ pair.req.session_id = SecretSession
    /\ pair.req.op = "process_query"
    /\ pair.store["owned_by_other"].sessions[SecretSession].user_id = OtherUser
    /\ pair.store["owned_by_other"].queries = {SecretTurn}
    /\ ~pair.store["absent"].sessions[SecretSession].present
    /\ pair.out["owned_by_other"].http.status = 404

Returned(r) == pc[r] = "finish" /\ req[r].op = "process_query"
FoundNoTurn(r) == Len(loc[r].recent_queries) = 0

\* C3 as stated, for the first call of a series: a call on an owned session
\* that found no prior turn (and was given an answer text by the generation)
\* has issued exactly one title update when it ends.
C3_Original ==
    \A r \in Reqs :
        (started = 1 /\ Returned(r) /\ result[r] # NoneResult
         /\ loc[r].response_text # PyNone /\ FoundNoTurn(r))
            => calls[r].title = 1

\* C3: a process_query call that found no prior turn and created its turn
\* issues exactly one title update; a call that found at least one prior
\* turn, or whose turn was not created, issues none.
C3_TitleOnFirstTurn ==
    \A r \in Reqs :
        req[r].op = "process_query" =>
            /\ calls[r].title <= 1
            /\ calls[r].title = 1 => (FoundNoTurn(r) /\ loc[r].query_record # NoQuery)
            /\ (Returned(r) /\ result[r].kind = "QueryResponse")
                  => calls[r].title = IF FoundNoTurn(r) THEN 1 ELSE 0
            /\ (Returned(r) /\ loc[r].query_record = NoQuery) => calls[r].title = 0

\* The second call on a session returns: it found the turn of the first
\* call, which had set the title, and issued no title update.
C3_Witness ==
    \E r \in Reqs :
        /\ Returned(r) /\ result[r].kind = "QueryResponse"
        /\ Len(loc[r].recent_queries) = 1
        /\ calls[r].title = 0
        /\ auto_titles[req[r].session_id] = 1
        /\ sessions[req[r].session_id].title
             = SessionTitle(loc[r].recent_queries[1].query_text)

TurnsOf(s) == {q \in queries : q.session_id = s}

C4_Step ==
    \A s \in SessionIds :
        sessions'[s].title # sessions[s].title =>
            \E r \in Reqs :
                /\ pc[r] = "finish" /\ pc'[r] = "done"
                /\ req[r].session_id = s
                /\ req[r].user_id = sessions[s].user_id
                /\ \/ req[r].op = "update_session_title"
                   \/ /\ req[r].op = "process_query"
                      /\ auto_titles[s] = 0
                      /\ TurnsOf(s) = {}

\* C4: under every interleaving of concurrent process_query calls on one
\* session, the title is changed automatically at most once, by the first
\* turn of the session; every other change of the title is an explicit
\* update_session_title of the owner.
C4_AutoTitleOnce == [][C4_Step]_vars

GenerationFailed(reply) == reply # "text"

C5_Step ==
    \A r \in Reqs :
        /\ (pc[r] = "generate" /\ pc'[r] = "create" /\ GenerationFailed(inflight[r].openai))
              => loc'[r].response_text = APOLOGY
        /\ (pc[r] = "create" /\ loc[r].response_text # AI_TEXT
            /\ pc'[r] \in {"title", "finish"}
            /\ result'[r] # RaisedResult("OperationalError"))
              => /\ result'[r].kind # "raised"
                 /\ \E q \in tx'[r].inserted :
                       q.response_text = APOLOGY /\ loc'[r].query_record = q

\* C5: when the answer-generation call fails in any way (timeout, non-2xx
\* status, a payload without the answer text), the answer of process_query
\* is the fixed apology string, the call does not fail, and the turn it
\* creates and returns carries the apology string as response_text.
C5_ApologyOnGenerationFailure == [][C5_Step]_vars

C6_Step ==
    \A r \in Reqs :
        /\ (pc[r] = "extract" /\ pc'[r] \notin {"extract", "done"}
            /\ inflight[r].openai # "text")
              => /\ pc'[r] = "retrieve"
                 /\ inflight'[r].service = "wikipedia"
                 /\ inflight'[r].query = req[r].query_text
                 /\ Len(inflight'[r].query) > 0
        /\ (pc[r] = "retrieve" /\ pc'[r] \notin {"retrieve", "done"})
              => pc'[r] = "history" /\ calls'[r].retrieve = 1

\* C6: when the topic-extraction call fails in any way, _extract_search_terms
\* returns the query text unchanged, and process_query goes on to call
\* get_context_for_query with that text as the search terms.
C6_ExtractionFallsBack == [][C6_Step]_vars

\* A failed extraction is over and the search for the original query text
\* (not the extracted topic) is on its way.
C6_Witness ==
    \E r \in Reqs :
        /\ pc[r] = "retrieve"
        /\ calls[r].extract = 1
        /\ inflight[r].service = "wikipedia"
        /\ inflight[r].query = req[r].query_text
        /\ inflight[r].query # Strip(RawTopic)

\* C7: process_query ends without a turn only by the ownership check (None)
\* or by a failure of the database; whatever the topic extraction, the
\* search, the extract fetches and the generation answered on an owned
\* session, it inserts exactly one turn and returns it.
C7_OnlyPersistenceAborts ==
    \A r \in Reqs :
        (Returned(r) /\ result[r] # NoneResult
         /\ result[r] # RaisedResult("OperationalError"))
            => /\ result[r].kind = "QueryResponse"
               /\ tx[r].inserted = {loc[r].query_record}
               /\ result[r].value.query_id = loc[r].query_record.query_id

C8_Step ==
    \A r \in Reqs :
        req[r].op = "process_query" =>
            /\ (pc[r] = "create" /\ pc'[r] \notin {"create", "done"}
                /\ tx'[r].inserted = tx[r].inserted)
                  => /\ pc'[r] = "finish"
                     /\ result'[r].kind = "raised"
                     /\ http'[r].status >= 500
                     /\ loc'[r].query_record = NoQuery
                     /\ ~tx'[r].set_title
            /\ (pc[r] = "finish" /\ result[r].kind = "raised" /\ pc'[r] = "done")
                  => /\ queries' = queries
                     /\ sessions' = sessions
                     /\ http'[r].status >= 500

\* C8: when the flush of the new turn fails, process_query raises (the route
\* answers 5xx, no turn is returned), and when a request that raised ends,
\* the committed turns and session titles are what they were before.
C8_PersistenceFailurePropagates == [][C8_Step]_vars

\* The only request so far failed at create_query with the database
\* unreachable and is over: no id was used, no turn and no title remain.
C8_Witness ==
    \E r \in Reqs :
        /\ pc[r] = "done" /\ started = 1
        /\ http[r] = GetDbError("OperationalError")
        /\ next_query_id = 1
        /\ queries = {}
        /\ sessions[1].title = DEFAULT_TITLE

AnswerTexts == {AI_TEXT, APOLOGY}

\* C9: a process_query run inserts its turn at most once and only after the
\* generation call has completed, with the answer text or the apology text;
\* a run that returns a turn has inserted exactly one, the one it returns.
C9_OneTurnAfterGeneration ==
    \A r \in Reqs :
        req[r].op = "process_query" =>
            /\ calls[r].create <= 1
            /\ Cardinality(tx[r].inserted) <= 1
            /\ pc[r] \in {"check", "extract", "retrieve", "history", "generate", "create"}
                  => tx[r].inserted = {} /\ calls[r].create = 0
            /\ tx[r].inserted # {}
                  => /\ calls[r].generate = 1 /\ calls[r].create = 1
                     /\ tx[r].inserted = {loc[r].query_record}
                     /\ loc[r].query_record.response_text = loc[r].response_text
                     /\ loc[r].response_text \in AnswerTexts
            /\ (Returned(r) /\ result[r].kind = "QueryResponse")
                  => /\ Cardinality(tx[r].inserted) = 1
                     /\ result[r].value.query_id = loc[r].query_record.query_id
                     /\ result[r].value.response_text = loc[r].response_text

\* A run whose generation failed returns the one turn it inserted, with the
\* apology text.
C9_Witness ==
    \E r \in Reqs :
        /\ Returned(r) /\ result[r].kind = "QueryResponse"
        /\ calls[r].generate = 1 /\ calls[r].create = 1
        /\ Cardinality(tx[r].inserted) = 1
        /\ result[r].value.response_text = APOLOGY

CompleteTurn(q, r) ==
    /\ q.query_id > 0 /\ q.created_at > 0
    /\ q.session_id = req[r].session_id
    /\ q.query_text = req[r].query_text
    /\ q.input_mode = req[r].input_mode
    /\ q.response_text \in AnswerTexts

C10_Step ==
    /\ \A r \in Reqs :
          (req[r].op = "process_query" /\ pc[r] \in InHandler
           /\ pc'[r] = "done" /\ http'[r] = TimeoutResponse)
              => /\ queries' = queries
                 /\ sessions' = sessions
                 /\ \A s \in SessionIds : lock'[s] # r
    /\ queries' # queries =>
          \E r \in Reqs :
              /\ pc[r] = "finish" /\ pc'[r] = "done"
              /\ result[r].kind = "QueryResponse"
              /\ http'[r].status = 201
              /\ loc[r].query_record \notin queries
              /\ queries' = queries \cup {loc[r].query_record}
              /\ CompleteTurn(loc[r].query_record, r)

\* C10: a process_query request cancelled by the request timeout at any
\* await (also between create_query and the title update) leaves no turn,
\* no title and no lock behind; the committed turns change only by the
\* commit of a request that returned, which adds its one complete turn.
C10_NoPartialTurn == [][C10_Step]_vars

\* The only request so far was cancelled after its turn had been inserted
\* (its id is used up): it was answered 504 and no turn or title remains.
C10_Witness ==
    \E r \in Reqs :
        /\ pc[r] = "done" /\ started = 1
        /\ http[r] = TimeoutResponse
        /\ next_query_id = 2
        /\ queries = {}
        /\ sessions[1].title = DEFAULT_TITLE

NoContext == [context |-> <<>>, sources |-> <<>>]
Called(fn) == unit.fn = fn
Candidates == unit.input.wiki.hits
Qualifies(i) == Candidates[i].wordcount >= MIN_ARTICLE_WORDS
QualifiedBefore(i) == Cardinality({k \in 1..(i - 1) : Qualifies(k)})
Returns(out, i) == \E j \in 1..Len(out) : out[j].title = Candidates[i].title

\* C11: search_articles keeps a candidate iff its word count is at least 500
\* (a missing word count counts as 0) and it is among the first three such;
\* when every candidate is below 500, or there is none,
\* get_context_for_query returns ("", []).
C11_WordCountFilter ==
    /\ (Called("search_articles") /\ unit.input.wiki.search_ok) =>
          \A i \in 1..Len(Candidates) :
              Returns(unit.output, i) <=> (Qualifies(i) /\ QualifiedBefore(i) < SEARCH_KEEP)
    /\ (Called("get_context_for_query") /\ \A i \in 1..Len(Candidates) : ~Qualifies(i))
          => unit.output = NoContext

\* A search answered with candidates of 499, 500 and a missing word count
\* has kept the one of 500.
C11_Witness ==
    /\ Called("search_articles") /\ unit.input.wiki.search_ok
    /\ Len(Candidates) = 3
    /\ Candidates[1].wordcount = MIN_ARTICLE_WORDS - 1
    /\ Candidates[2].wordcount = MIN_ARTICLE_WORDS
    /\ Candidates[3].wordcount < 0
    /\ Len(unit.output) = 1 /\ unit.output[1].title = Candidates[2].title

\* The titles of the "## <title>" headings of a context text, in order.
HeadingAt(t, i) ==
    /\ i + 2 <= Len(t)
    /\ t[i] = "#" /\ t[i + 1] = "#" /\ t[i + 2] = " "
    /\ (i = 1 \/ t[i - 1] = "\n")
RECURSIVE LineEnd(_, _)
LineEnd(t, i) == IF i > Len(t) \/ t[i] = "\n" THEN i ELSE LineEnd(t, i + 1)
RECURSIVE HeadingsFrom(_, _)
HeadingsFrom(t, i) ==
    IF i > Len(t) THEN <<>>
    ELSE IF HeadingAt(t, i)
         THEN <<SubSeq(t, i + 3, LineEnd(t, i + 3) - 1)>> \o HeadingsFrom(t, LineEnd(t, i + 3))
         ELSE HeadingsFrom(t, i + 1)
PositionOf(title) == CHOOSE i \in 1..Len(Candidates) : Candidates[i].title = title

\* C12: get_context_for_query returns at most max_articles sources, its
\* context text has one "## <title>" section per source, the i-th for the
\* i-th source, and both follow the order of the search service's answer.
C12_SourcesAndSections ==
    Called("get_context_for_query") =>
        LET sources == unit.output.sources
            headings == HeadingsFrom(unit.output.context, 1)
        IN /\ Len(sources) <= unit.input.max_articles
           /\ Len(headings) = Len(sources)
           /\ \A j \in 1..Len(sources) : headings[j] = sources[j].title
           /\ \A j, k \in 1..Len(sources) :
                 j < k => PositionOf(sources[j].title) < PositionOf(sources[k].title)

\* Four candidates qualify and have a text, max_articles is 2: the first two
\* are the sources, in the order of the search.
C12_Witness ==
    /\ Called("get_context_for_query")
    /\ unit.input.max_articles = 2
    /\ Len(Candidates) = 4
    /\ Len(unit.output.sources) = 2
    /\ unit.output.sources[1].title = Candidates[1].title
    /\ unit.output.sources[2].title = Candidates[2].title
    /\ Len(HeadingsFrom(unit.output.context, 1)) = 2

TurnReturned(r) == Returned(r) /\ result[r].kind = "QueryResponse"

\* C13: the sources of process_query's response are the (title, url) pairs
\* of the retrieved sources, in retrieval order, when both the retrieved
\* context and the retrieved source list are non-empty, and the empty list
\* otherwise.
C13_SourcesProjection ==
    \A r \in Reqs :
        TurnReturned(r) =>
            LET retrieved == loc[r].wikipedia_sources
                shown == result[r].value.sources
            IN IF Len(loc[r].wikipedia_context) > 0 /\ Len(retrieved) > 0
               THEN /\ Len(shown) = Len(retrieved)
                    /\ \A i \in 1..Len(shown) :
                          shown[i] = [title |-> retrieved[i].title, url |-> retrieved[i].url]
               ELSE shown = <<>>

\* A turn is returned with the two sources the retrieval found, in the
\* order of the search answer (not by word count or title).
C13_Witness ==
    \E r \in Reqs :
        /\ TurnReturned(r)
        /\ result[r].value.sources
             = << [title |-> TowerTitle, url |-> ArticleUrl(TowerTitle)],
                  [title |-> RolexTitle, url |-> ArticleUrl(RolexTitle)] >>

\* What stands between the WIKIPEDIA CONTEXT label and the CONVERSATION
\* HISTORY label of the prompt's second message.
ContextBlock(messages) ==
    LET content == messages[2].content
        k == CHOOSE i \in 1..Len(content) : content[i] = "\n\nCONVERSATION HISTORY:\n"
    IN SubSeq(content, 2, k - 1)
PromptHasNoArticle(messages) == ContextBlock(messages) \in {EMPTY_CONTEXT, <<>>}

C14_Step ==
    \A r \in Reqs :
        /\ (pc[r] = "history" /\ pc'[r] = "generate")
              => (PromptHasNoArticle(inflight'[r].messages)
                    <=> Len(loc'[r].wikipedia_context) = 0)
        /\ (pc[r] \in {"history", "generate", "create", "title", "title_wait"}
            /\ pc'[r] # "done")
              => loc'[r].wikipedia_context = loc[r].wikipedia_context
        /\ (pc[r] # "finish" /\ TurnReturned(r)')
              => (Len(loc'[r].wikipedia_context) = 0
                    <=> Len(result'[r].value.sources) = 0)

\* C14: for every turn process_query returns, the context text placed in
\* the WIKIPEDIA CONTEXT block of the prompt is empty iff the source list of
\* the response is empty.
C14_ContextIffSources == [][C14_Step]_vars

\* A turn is returned whose prompt carried article text and whose response
\* carries sources.
C14_Witness ==
    \E r \in Reqs :
        /\ TurnReturned(r)
        /\ Len(loc[r].wikipedia_context) > 0
        /\ Len(result[r].value.sources) > 0

C15_Step ==
    \A r \in Reqs :
        /\ (pc[r] = "retrieve" /\ pc'[r] \notin {"retrieve", "done"}
            /\ inflight[r].wiki.search_ok /\ inflight[r].wiki.hits = <<>>)
              => /\ pc'[r] = "history"
                 /\ loc'[r].wikipedia_context = <<>>
                 /\ loc'[r].wikipedia_sources = <<>>
        /\ (pc[r] = "history" /\ pc'[r] \notin {"history", "done"}
            /\ loc[r].wikipedia_context = <<>>)
              => /\ pc'[r] = "generate"
                 /\ inflight'[r].service = "openai"
                 /\ ContextBlock(inflight'[r].messages) = EMPTY_CONTEXT
        /\ (pc[r] = "generate" /\ pc'[r] \notin {"generate", "done"}
            /\ loc[r].wikipedia_context = <<>>)
              => pc'[r] = "create" /\ calls'[r].generate = 1
        /\ (pc[r] = "create" /\ pc'[r] \notin {"create", "done"}
            /\ loc[r].wikipedia_context = <<>>)
              => /\ calls'[r].create = 1
                 /\ result'[r].kind # "raised" => Cardinality(tx'[r].inserted) = 1
        /\ (pc[r] # "finish" /\ TurnReturned(r)' /\ loc'[r].wikipedia_context = <<>>)
              => /\ result'[r].value.sources = <<>>
                 /\ tx'[r].inserted = {loc'[r].query_record}

Ellipsis == <<".", ".", ".">>

\* C16: the title derived on a session's first turn is the query text when
\* it has at most 50 characters, and its first 50 characters followed by
\* "..." (53 characters) when it has more.
C16_TitleTruncation ==
    Called("first_turn") =>
        LET q == unit.input.query_text
            title == unit.output.title
        IN IF Len(q) <= TITLE_MAX_LENGTH
           THEN title = q
           ELSE /\ Len(title) = TITLE_MAX_LENGTH + 3
                /\ \A i \in 1..TITLE_MAX_LENGTH : title[i] = q[i]
                /\ \A i \in 1..3 : title[TITLE_MAX_LENGTH + i] = Ellipsis[i]

\* A first turn of 80 characters has given a title of 53.
C16_Witness ==
    /\ Called("first_turn")
    /\ Len(unit.input.query_text) = 80
    /\ unit.output.http.status = 201
    /\ Len(unit.output.title) = 53

\* C17: get_conversation_history returns None under exactly the condition
\* under which process_query does (session absent, soft-deleted or of
\* another user); otherwise it returns every turn of the session, oldest
\* first, each with an empty source list; it changes no session and no turn.
C17_HistoryContract ==
    Called("get_conversation_history") =>
        LET st == unit.input.store
            q == unit.input.req
            row == st.sessions[q.session_id]
            denied == ~row.present \/ row.is_obsolete \/ row.user_id # q.user_id
            h == unit.output.history
            turns == {t \in st.queries : t.session_id = q.session_id}
            v == h.result.value
        IN /\ h.result = NoneResult <=> denied
           /\ unit.output.process_query = NoneResult <=> denied
           /\ h.store.sessions = st.sessions
           /\ h.store.queries = st.queries
           /\ h.store.next_query_id = st.next_query_id
           /\ ~denied =>
                /\ h.result.kind = "QueryList"
                /\ Len(v) = Cardinality(turns)
                /\ \A t \in turns : \E i \in 1..Len(v) :
                      /\ v[i].query_id = t.query_id
                      /\ v[i].query_text = t.query_text
                      /\ v[i].response_text = t.response_text
                      /\ v[i].input_mode = t.input_mode
                      /\ v[i].created_at = t.created_at
                /\ \A i, j \in 1..Len(v) : i < j => v[i].created_at < v[j].created_at
                /\ \A i \in 1..Len(v) : v[i].sources = <<>>

\* The owner has read a session of three turns; the oldest turn, returned
\* first, is not the one with the lowest id.
C17_Witness ==
    /\ Called("get_conversation_history")
    /\ unit.output.history.result.kind = "QueryList"
    /\ Len(unit.output.history.result.value) = 3
    /\ unit.output.history.result.value[1].query_id = 2
    /\ unit.output.history.result.value[1].created_at = 1

Considered(i) ==
    Qualifies(i) /\ QualifiedBefore(i) < Min(SEARCH_KEEP, unit.input.max_articles)
ExtractFailed(i) == Candidates[i].extract = NoExtract
Contains(t, part) ==
    \E k \in 0..(Len(t) - Len(part)) : SubSeq(t, k + 1, k + Len(part)) = part

\* C18: get_context_for_query always returns a (context, sources) pair: when
\* the search call fails it is ("", []); when the extract fetch of a
\* candidate fails that candidate alone is left out, and every other
\* considered candidate that has a text is returned with its extract.
C18_FailuresContained ==
    Called("get_context_for_query") =>
        LET out == unit.output
        IN /\ ~unit.input.wiki.search_ok => out = NoContext
           /\ unit.input.wiki.search_ok =>
                \A i \in 1..Len(Candidates) :
                    /\ ExtractFailed(i) => ~Returns(out.sources, i)
                    /\ (Considered(i) /\ ~ExtractFailed(i) /\ Candidates[i].extract # <<>>) =>
                          /\ \E j \in 1..Len(out.sources) :
                                /\ out.sources[j].title = Candidates[i].title
                                /\ out.sources[j].extract = Candidates[i].extract
                          /\ Contains(out.context, ContextPart(Candidates[i]))

\* Three candidates qualify and the extract fetch of the second fails: the
\* first and the third are returned.
C18_Witness ==
    /\ Called("get_context_for_query")
    /\ unit.input.wiki.search_ok
    /\ unit.input.max_articles = 3
    /\ Len(Candidates) = 3
    /\ \A i \in 1..3 : Qualifies(i)
    /\ ExtractFailed(2)
    /\ Len(unit.output.sources) = 2
    /\ unit.output.sources[1].title = Candidates[1].title
    /\ unit.output.sources[2].title = Candidates[3].title

\* C19: get_session, update_session_title and delete_session take effect
\* only for a live session whose owner is the requesting user; for every
\* other (session, user) pair they return None / None / False, call neither
\* the repository's update nor its delete, and leave every session's title
\* and liveness flag as they were.
C19_OwnershipGuard ==
    Called("session_service") =>
        LET st == unit.input.store
            q == unit.input.req
            row == st.sessions[q.session_id]
            allowed == row.present /\ ~row.is_obsolete /\ row.user_id = q.user_id
            out == unit.output
        IN /\ ~allowed =>
                /\ out.result.kind = (IF q.op = "delete_session" THEN "False" ELSE "None")
                /\ out.repo_calls = <<>>
                /\ out.store.sessions = st.sessions
           /\ allowed =>
                /\ q.op = "get_session" =>
                      /\ out.result = [kind |-> "SessionResponse", value |-> <<row.title>>]
                      /\ out.store.sessions = st.sessions
                /\ q.op = "update_session_title" =>
                      /\ out.result = [kind |-> "SessionResponse", value |-> <<q.title>>]
                      /\ out.store.sessions =
                            [st.sessions EXCEPT ![q.session_id].title = q.title]
                /\ q.op = "delete_session" =>
                      /\ out.result.kind = "True"
                      /\ out.store.sessions =
                            [st.sessions EXCEPT ![q.session_id].is_obsolete = TRUE]

\* A user has asked to delete a live session of the other user: False, no
\* repository call, the session still live.
C19_Witness ==
    /\ Called("session_service")
    /\ unit.input.req.op = "delete_session"
    /\ unit.input.store.sessions[unit.input.req.session_id].present
    /\ ~unit.input.store.sessions[unit.input.req.session_id].is_obsolete
    /\ unit.input.store.sessions[unit.input.req.session_id].user_id
          # unit.input.req.user_id
    /\ unit.output.result.kind = "False"
    /\ unit.output.repo_calls = <<>>
    /\ ~unit.output.store.sessions[unit.input.req.session_id].is_obsolete

\* The text `inner` is `outer` without its leading and trailing whitespace.
Trimmed(inner, outer) ==
    /\ Len(inner) <= Len(outer)
    /\ \E a \in 0..(Len(outer) - Len(inner)) :
          /\ SubSeq(outer, a + 1, a + Len(inner)) = inner
          /\ \A k \in 1..a : outer[k] \in Whitespace
          /\ \A k \in (a + Len(inner) + 1)..Len(outer) : outer[k] \in Whitespace
    /\ Len(inner) > 0 => (inner[1] \notin Whitespace /\ inner[Len(inner)] \notin Whitespace)

\* C20: a request body is accepted only if its trimmed query_text has 1 to
\* 2000 characters and its input_mode is "text" or "voice" ("text" when not
\* given); the accepted query_text is the trimmed text; the turn persisted
\* for it carries that query_text and that input_mode, and nothing is
\* persisted for a body that is not accepted.
C20_AcceptedRequests ==
    Called("submit_query") =>
        LET body == unit.input
            request == unit.output.request
        IN /\ request.accepted =>
                /\ Trimmed(request.query_text, body.query_text)
                /\ Len(request.query_text) >= 1
                /\ Len(request.query_text) <= 2000
                /\ request.input_mode \in {"text", "voice"}
                /\ request.input_mode =
                      (IF body.input_mode = NotGiven THEN "text" ELSE body.input_mode)
                /\ Cardinality(unit.output.persisted) = 1
           /\ ~request.accepted => unit.output.persisted = {}
           /\ \A row \in unit.output.persisted :
                 /\ row.query_text = request.query_text
                 /\ row.input_mode = request.input_mode

\* A body whose text has 2000 characters after a space and before a space
\* and a newline, with no input_mode, has been accepted and its turn
\* persisted as "text" with the 2000 characters.
C20_Witness ==
    /\ Called("submit_query")
    /\ Len(unit.input.query_text) = 2003
    /\ unit.input.query_text[1] = " "
    /\ unit.input.query_text[2003] = "\n"
    /\ unit.input.input_mode = NotGiven
    /\ unit.output.request.accepted
    /\ unit.output.status = 201
    /\ \E row \in unit.output.persisted :
          Len(row.query_text) = 2000 /\ row.input_mode = "text"

Traced == Called("process_query") /\ unit.output.reached
NewTurns == unit.output.run.store.queries \ unit.input.store.queries

\* C21: the query text persisted in the turn, returned in the response and
\* put under the USER QUERY label of the prompt is the request's query_text,
\* whatever the topic extraction returned; the extracted topic goes to the
\* retriever only.
C21_OriginalTextKept ==
    Traced =>
        LET q == unit.input.req
            out == unit.output
        IN /\ out.messages[Len(out.messages)].content = <<"USER QUERY:\n">> \o q.query_text
           /\ out.run.result.kind = "QueryResponse"
           /\ out.run.result.value.query_text = q.query_text
           /\ Cardinality(NewTurns) = 1
           /\ \A row \in NewTurns : row.query_text = q.query_text
           /\ Len(out.conversation_history) = 0 =>
                 LET title == out.run.store.sessions[q.session_id].title
                 IN \A i \in 1..Min(Len(q.query_text), TITLE_MAX_LENGTH) :
                       title[i] = q.query_text[i]

\* The extractor has answered with a topic that differs from the utterance:
\* the retriever was given the topic, the turn and the response the utterance.
C21_Witness ==
    /\ Traced
    /\ unit.input.ext.extract_reply = "text"
    /\ unit.output.retriever_query # unit.input.req.query_text
    /\ unit.output.run.result.value.query_text = unit.input.req.query_text
    /\ \E row \in NewTurns : row.query_text = unit.input.req.query_text

SessionTurns == {t \in unit.input.store.queries :
                   t.session_id = unit.input.req.session_id}

\* C22: the history process_query gives to _build_messages is the last
\* min(5, n) of the session's n persisted turns, oldest first: the end of
\* what get_conversation_history returns; it holds neither the turn being
\* processed nor a turn of another session.
C22_RecentHistory ==
    Traced =>
        LET h == unit.output.conversation_history
            all == get_queries_by_session_id(unit.input.store.queries,
                                             unit.input.req.session_id)
            n == Cardinality(SessionTurns)
        IN /\ Len(h) = (IF n < 5 THEN n ELSE 5)
           /\ \A i \in 1..Len(h) : h[i] \in SessionTurns
           /\ \A i, j \in 1..Len(h) : i < j => h[i].created_at < h[j].created_at
           /\ \A t \in SessionTurns :
                 (\E i \in 1..Len(h) : h[i] = t)
                 \/ (Len(h) > 0 /\ t.created_at < h[1].created_at)
           /\ Len(all) = n
           /\ h = SubSeq(all, n - Len(h) + 1, n)
           /\ \A i \in 1..Len(h) : h[i] \notin NewTurns

\* A session of six turns: the five newest are given, the oldest of them
\* first, and the order is that of the creation times, not of the ids.
C22_Witness ==
    /\ Traced
    /\ Cardinality(SessionTurns) = 6
    /\ Len(unit.output.conversation_history) = 5
    /\ unit.output.conversation_history[1].query_id = 1
    /\ unit.output.conversation_history[2].query_id = 4
    /\ unit.output.conversation_history[5].query_id = 5

Survivors == {i \in 1..Len(Candidates) : Qualifies(i) /\ QualifiedBefore(i) < SEARCH_KEEP}
Fetchable == {i \in Survivors : Candidates[i].extract \notin {NoExtract, <<>>}}

\* C23: a surviving candidate whose extract fetch fails or gives no text is
\* left out and does not use up one of the max_articles places: when at
\* least max_articles surviving candidates have a fetchable extract,
\* max_articles sources are returned.
C23_SkippedNotCounted ==
    (Called("get_context_for_query") /\ unit.input.wiki.search_ok) =>
        /\ \A i \in 1..Len(Candidates) :
              Candidates[i].extract \in {NoExtract, <<>>} => ~Returns(unit.output.sources, i)
        /\ Cardinality(Fetchable) >= unit.input.max_articles =>
              Len(unit.output.sources) = unit.input.max_articles

\* C24: every external call has its own timeout, and a request in which a
\* stage ran into its timeout still ends with that stage's fallback: the
\* client gets no error response because a stage was slow.
C24_StageTimeoutFallsBack ==
    Called("timed_request") =>
        \A i \in DOMAIN Stages :
            (unit.output.outcome[i] # "not reached"
             /\ unit.input[i] = StageTimeout(Stages[i]))
               => (unit.output.outcome[i] = "fallback" /\ unit.output.status = 201)

\* C25: once the turn has been persisted, process_query returns that same
\* turn whatever the first-turn title update does (succeeds, fails, finds
\* the session gone), and a failed title update does not undo the turn: the
\* turn is committed unless the request is cancelled.
C25_Step ==
    \A r \in Reqs :
        /\ (pc[r] \in {"title", "title_wait"} /\ pc'[r] = "finish")
              => result'[r] = Shaped(r, loc[r].query_record)
        /\ (pc[r] = "finish" /\ calls[r].title > 0 /\ pc'[r] = "done"
            /\ http'[r] # TimeoutResponse)
              => tx[r].inserted \subseteq queries'

C25_TitleFireAndForget == [][C25_Step]_vars

\* C26: a Query Turn is immutable once created: whatever operation runs
\* (process_query, get_history, title update, soft deletion, commit,
\* rollback, cancellation), every stored turn is still stored with the same
\* session id, texts, input mode and creation time, and its id names no
\* other row.
C26_Step ==
    /\ \A q \in queries : q \in queries'
    /\ \A a, b \in queries' : a.query_id = b.query_id => a = b

HistoryLabelAt(content) ==
    CHOOSE k \in 1..Len(content) : content[k] = "\n\nCONVERSATION HISTORY:\n"

StartsWith(s, p) == Len(s) >= Len(p) /\ SubSeq(s, 1, Len(p)) = p

RECURSIVE HoldsTurns(_, _)
HoldsTurns(text, history) ==
    IF Len(history) = 0 THEN text = <<>>
    ELSE LET q == history[1].query_text
             a == history[1].response_text
             turn == <<"User: ">> \o q \o <<"\nAssistant: ">> \o a \o <<"\n\n">>
         IN /\ StartsWith(text, turn)
            /\ HoldsTurns(SubSeq(text, Len(turn) + 1, Len(text)), Tail(history))

\* C27: the prompt built for a turn has exactly four messages with the roles
\* system, user, assistant, user: the first is the grounding policy
\* verbatim; the second is the WIKIPEDIA CONTEXT label, the context (or the
\* empty-context sentinel), the CONVERSATION HISTORY label and then the past
\* turns one after the other in the given order, each as "User: ...
\* Assistant: ...", or the start-of-conversation sentinel when there is no
\* past turn; the last is the USER QUERY label and the current query.
C27_PromptShape ==
    Traced =>
        LET out == unit.output
            messages == out.messages
            second == messages[2].content
            k == HistoryLabelAt(second)
            context == SubSeq(second, 2, k - 1)
            history == SubSeq(second, k + 1, Len(second))
        IN /\ Len(messages) = 4
           /\ [i \in 1..4 |-> messages[i].role] = <<"system", "user", "assistant", "user">>
           /\ messages[1].content = SYSTEM_PROMPT
           /\ second[1] = "WIKIPEDIA CONTEXT:\n"
           /\ \E i \in 1..Len(second) : second[i] = "\n\nCONVERSATION HISTORY:\n"
           /\ context = IF out.wikipedia_context = <<>> THEN EMPTY_CONTEXT
                        ELSE out.wikipedia_context
           /\ IF out.conversation_history = <<>>
              THEN history = START_OF_CONVERSATION
              ELSE HoldsTurns(history, out.conversation_history)
           /\ messages[4].content = <<"USER QUERY:\n">> \o unit.input.req.query_text

\* A prompt with article context and two different past turns.
C27_Witness ==
    /\ Traced
    /\ unit.output.wikipedia_context # <<>>
    /\ Len(unit.output.conversation_history) >= 2
    /\ unit.output.conversation_history[1].query_text
         # unit.output.conversation_history[2].query_text

DeletedSession == unit.input.req.session_id
NotFoundKinds == {"None", "False"}

\* C28: once the owner's delete_session has succeeded the session stays
\* soft-deleted whatever is called afterwards; every later get_session,
\* update_session_title, delete_session, process_query and get_history on
\* it, by the owner or anyone else, returns None or False and leaves
\* sessions and turns as they were; and no user's session list holds it.
C28_DeletedForGood ==
    Called("deleted") =>
        LET now == unit.output.store
        IN /\ now.sessions[DeletedSession].present
           /\ now.sessions[DeletedSession].is_obsolete
           /\ \A i \in DOMAIN unit.output.last :
                LET call == unit.output.last[i]
                IN /\ (call.req.op # "get_user_sessions"
                       /\ call.req.session_id = DeletedSession)
                        => /\ call.result.kind \in NotFoundKinds
                           /\ now.sessions = call.before.sessions
                           /\ now.queries = call.before.queries
                           /\ now.next_query_id = call.before.next_query_id
                   /\ call.req.op = "get_user_sessions"
                        => /\ call.result.kind = "SessionList"
                           /\ DeletedSession \notin call.result.value[1]
                           /\ now.sessions = call.before.sessions

\* The owner asks a question in the session that holds a turn, after the
\* deletion and one more call.
C28_Witness ==
    /\ Called("deleted")
    /\ unit.output.ops = 2
    /\ \E q \in unit.output.store.queries : q.session_id = DeletedSession
    /\ unit.output.last[1].req.op = "process_query"
    /\ unit.output.last[1].req.session_id = DeletedSession
    /\ unit.output.last[1].req.user_id = unit.input.req.user_id
    /\ unit.output.last[1].result.kind = "None"

\* C29: under every interleaving of requests by several users a session's
\* owner never changes, and whenever a session's title, liveness flag or
\* set of turns changes, the change is the commit of a request for that
\* session sent by the session's owner; every turn committed by a request
\* is in the session the request named.
C29_Step ==
    /\ \A s \in SessionIds :
         /\ sessions'[s].user_id = sessions[s].user_id
         /\ sessions'[s].present = sessions[s].present
         /\ (sessions'[s] # sessions[s] \/ TurnsOf(s)' # TurnsOf(s))
              => \E r \in Reqs :
                   /\ pc[r] = "finish" /\ pc'[r] = "done"
                   /\ req[r].session_id = s
                   /\ sessions[s].present
                   /\ req[r].user_id = sessions[s].user_id
    /\ \A r \in Reqs :
         \A q \in tx[r].inserted : q.session_id = req[r].session_id

C29_OwnerOnlyWrites == [][C29_Step]_vars

\* User 2 was refused on user 1's session, which holds a turn of user 1.
C29_Witness ==
    /\ queries # {}
    /\ \E r \in Reqs :
         /\ pc[r] = "finish"
         /\ req[r].op = "process_query"
         /\ req[r].session_id = 1
         /\ req[r].user_id # sessions[1].user_id
         /\ result[r] = NoneResult

\* C30: under every interleaving of process_query with delete_session on
\* the same session, a session that is soft-deleted gets no further turn
\* and no further automatic title: the ownership check made at the start of
\* process_query still holds when its writes are committed.
C30_Step ==
    \A s \in SessionIds :
        sessions[s].is_obsolete
          => /\ TurnsOf(s)' = TurnsOf(s)
             /\ auto_titles'[s] = auto_titles[s]

C30_NoWriteAfterDelete == [][C30_Step]_vars

====
